---- MODULE Spec2Model ----
(***************************************************************************)
(* State-machine model of the datarecovery pipeline controller:            *)
(*   - the mount-safety gate            (src/src/mounted_check.py)         *)
(*   - the recovery job controller      (src/src/application.py)           *)
(*   - the privileged imaging helper    (src/src/image_helper.py)          *)
(*   - the scanning phase               (src/src/recover.py)               *)
(*   - dedup and organisation           (src/src/duplicates.py,            *)
(*                                       src/src/organise_files.py)        *)
(***************************************************************************)
EXTENDS Integers, Sequences, FiniteSets, TLC

VARIABLES
    \* ---- operator's selection and the mount-safety gate (GUI thread)
    ui,                 \* "idle" until start_recovery has been invoked, then "started"
    device_path,        \* window.device_path captured by start_recovery (<<>> = None)
    block_devices,      \* MountedPartitionChecker.block_devices
    gate,               \* position of the mount-safety gate
    gate_return,        \* value returned by check_and_handle_mounted_partitions
    mounted_partitions, \* list of {path, mount_path} handed to the unmount dialog
    response,           \* response the operator gave to the unmount dialog
    unmount_attempts,   \* paths passed to _unmount_partition, in call order
    unmount_results,    \* what each of these calls returned
    failed_partitions,  \* failed_partitions of on_response
    toast,              \* last toast shown by the controller
    idle_pending,       \* success callbacks queued with GLib.idle_add, not yet run
    callbacks           \* number of runs of proceed_with_recovery

gateVars == <<ui, device_path, block_devices, gate, gate_return, mounted_partitions,
              response, unmount_attempts, unmount_results, failed_partitions, toast,
              idle_pending, callbacks>>

VARIABLES
    \* ---- controller (src/src/application.py)
    cancel_requested,   \* DataRecoveryController.cancel_requested
    recovery_dialog,    \* "none" | "open" | "closed": the cancellation dialog
    close_pending,      \* _close_recovery_dialog queued with GLib.idle_add
    cancel,             \* position of on_cancel_response on the GUI thread
    current_thread,     \* "None" | "alive" | "dead"
    current_process,    \* controller.current_process: "None" | "helper"
    ctl_cancel_file_path, \* controller.cancel_file_path: "unset" | "flag"
    label,              \* last text passed to set_output_label
    terminal,           \* text the job thread set last before it returned
    job,                \* position of the job thread in _run_recovery_process
    device_partition_paths, \* local of _run_recovery_process
    remove_duplicates,  \* dupes_switch as read by the job thread
    phases,             \* phases begun so far, in order
    \* ---- DDRescueHelper object and the files it owns
    partition_paths,    \* DDRescueHelper.partition_paths
    cmd,                \* option tokens of the pkexec command line after the fixed ones
    helper_path,        \* DDRescueHelper.helper_path: "None" | "script"
    cancel_file_path,   \* DDRescueHelper.cancel_file_path: "None" | "flag"
    script_file,        \* the helper script exists on disk
    flag_file,          \* the cancellation-flag file exists on disk
    legacy_flag,        \* /tmp/datarecovery_cancel_<pid> exists on disk
    launches,           \* number of Popen calls of the pkexec command
    \* ---- privileged helper process (template in create_helper_script)
    hp,                 \* position of the helper process
    args_partitions,    \* args.partitions after parse_args
    unit,               \* 1..4: ladder stage; 4+i: i-th partition of args.partitions
    dd,                 \* ddrescue subprocess: "none" | "running" | "exited"
    returncode,         \* exit code of the last ddrescue subprocess
    exit_code,          \* exit status of the helper, "none" while it has not exited
    started,            \* units for which ddrescue was started, in order
    exit_reason,        \* why the helper exited: "cancel" | "signal" | "failed" | "done" | "killed"
    sigterm,            \* SIGTERM sent to the helper, not yet handled
    \* ---- working directory and the later phases
    images,             \* sources whose .img file exists in the working directory
    working_dir,        \* the working directory exists
    scan_list,          \* image_files of photorec_recover
    scan_idx,           \* index of the image being scanned
    pr,                 \* photorec subprocess: "none" | "running" | "exited"
    scanned,            \* images for which photorec was launched, in order
    recovered,          \* number of files under recovered_files
    rd,                 \* rdfind subprocess: "none" | "running" | "exited"
    classified,         \* organize_files_by_type has been run
    rd_returncode,      \* exit code of rdfind
    dedup_outcome,      \* how remove_duplicates_with_rdfind ended, "none" before
    \* ---- organize_files_by_type on a tree of recovered files
    recovered_files,    \* the files under recovered_files when the run began
    tree,               \* the files under recovered_files now
    destination,        \* the files in the buckets of the destination
    lpc,                \* "idle" | "loop" | "done"
    processed,          \* the counter of organize_files_by_type
    keep_corrupted_files, \* the option switch
    \* ---- _get_unique_path against one directory
    directory,          \* the names that exist in the directory
    calls,              \* the calls made: name asked for and path returned
    \* ---- start_recovery invoked again
    restarts,           \* invocations of start_recovery after the first
    later_threads,      \* the job threads they started, each "alive" | "dead"
    \* ---- ownership of the files the helper produces
    root_owned,         \* sources whose image and map files the elevated user owns
    \* ---- the imaging units of a device job
    selected,           \* the device of a job
    dropdown_partitions,\* window.device_dropdown_manager.partitions
    scan_switch,        \* scan_partitions_switch as the job read it
    handed,             \* the partition list handed to the helper
    upc,                \* "ready" | "done"
    \* ---- move_image_files_to_destination on a working directory
    move_device,        \* device_path given to organize_and_cleanup
    listed,             \* the names in the working directory before the call
    working_files,      \* the names in the working directory
    working_dest,       \* the names in <destination>/WORKING
    saved_before,       \* the names an earlier run left in <destination>/WORKING
    replaced,           \* the earlier files a move has written over
    mvpc,               \* "ready" | "done"
    \* ---- the copy-and-remove loop of a processor, one statement at a time
    batch,              \* the files the running processor has still to relocate
    batch_dir,          \* the directory of the batch, an extension or no_file_type
    rpc                 \* "idle" | "copy" | "remove" | "raised"

ctlVars == <<cancel_requested, recovery_dialog, close_pending, cancel, current_thread,
             current_process, ctl_cancel_file_path, label, terminal, job,
             device_partition_paths, remove_duplicates, phases>>

objVars == <<partition_paths, cmd, helper_path, cancel_file_path, script_file,
             flag_file, legacy_flag, launches>>

helperVars == <<hp, args_partitions, unit, dd, returncode, exit_code, exit_reason,
                started, sigterm>>

phaseVars == <<images, working_dir, scan_list, scan_idx, pr, scanned, recovered, rd,
               classified, rd_returncode, dedup_outcome>>

layoutVars == <<recovered_files, tree, destination, lpc, processed, keep_corrupted_files>>

uniqueVars == <<directory, calls>>

restartVars == <<restarts, later_threads>>

ownerVars == <<root_owned>>

unitVars == <<selected, dropdown_partitions, scan_switch, handed, upc>>

moveVars == <<move_device, listed, working_files, working_dest, saved_before, replaced,
              mvpc>>

relocVars == <<batch, batch_dir, rpc>>

vars == <<gateVars, ctlVars, objVars, helperVars, phaseVars, layoutVars, uniqueVars,
          restartVars, ownerVars, unitVars, moveVars, relocVars>>

----------------------------------------------------------------------------
(* Bounds *)

\* longest block-device list handed to the mount-safety gate
MaxBlockDevices == 2

\* most partition records of the disk in a job
MaxParts == 2

\* most files photorec leaves under recovered_files
MaxRecovered == 1

\* most files in a tree handed to organize_files_by_type
MaxFiles == 2

\* most calls of _get_unique_path against one directory
MaxCalls == 2

\* most invocations of start_recovery after the first
MaxRestarts == 1

\* most names in a working directory handed to move_image_files_to_destination
MaxWorking == 3

----------------------------------------------------------------------------
(* Paths.  A path is the sequence of its leading directory token and the   *)
(* characters of its base name, so that str.startswith is a prefix test.   *)

None == <<>>

sdb == <<"/dev/", "s", "d", "b">>
sdb1 == <<"/dev/", "s", "d", "b", "1">>
sdb2 == <<"/dev/", "s", "d", "b", "2">>
sdc1 == <<"/dev/", "s", "d", "c", "1">>
image_file == <<"/home/", "d", ".img">>
raw_file == <<"/home/", "d", ".raw">>

\* str.startswith
StartsWith(s, prefix) ==
    /\ Len(prefix) <= Len(s)
    /\ SubSeq(s, 1, Len(prefix)) = prefix

\* str.endswith
EndsWith(s, suffix) ==
    /\ Len(suffix) <= Len(s)
    /\ SubSeq(s, Len(s) - Len(suffix) + 1, Len(s)) = suffix

\* paths a block-device record can carry
BlockPaths == {sdb, sdb1, sdb2, sdc1}

\* sources the operator can have selected (None: nothing selected)
Sources == {None, sdb, image_file, raw_file}

\* mount targets a record can carry; "" stands for None (not mounted)
MountTargets == {"/", "/home", "/boot", "/usr", "/var", "/tmp", "/opt", "/media/usb", "/mnt/data"}

\* records produced by udisks2_block_devices: mounted exactly when a mount
\* point is known
BlockDeviceRecords ==
    { r \in [path : BlockPaths, mounted : BOOLEAN, mount_path : MountTargets \cup {""}] :
        r.mounted <=> (r.mount_path # "") }

SeqsUpTo(S, n) == UNION { [1..k -> S] : k \in 0..n }

BlockDeviceLists == SeqsUpTo(BlockDeviceRecords, MaxBlockDevices)

\* block-device lists of the whole-job specification: the partition records
\* of one disk, each path once, none on a critical mount but possibly the
\* first; a mounted record stands alone in its list (the gate over longer
\* lists of mounted records is the subject of SpecGate)
JobRecords ==
    { r \in BlockDeviceRecords :
        r.path \in {sdb1, sdb2, sdc1} /\ r.mount_path \in {"", "/", "/media/usb"} }

JobBlockDeviceLists ==
    { bds \in SeqsUpTo(JobRecords, MaxParts) :
        /\ \A i, j \in 1..Len(bds) : i # j => bds[i].path # bds[j].path
        /\ \A i \in 1..Len(bds) : bds[i].mounted => Len(bds) = 1 }

----------------------------------------------------------------------------
(* Mount-safety gate *)

critical_mounts == {"/", "/home", "/boot", "/usr", "/var", "/tmp", "/opt"}

\* faulty variant: only the selected device itself is in scope, its
\* partitions are not
InScopeMountedExact(block_device, device) ==
    /\ block_device.path = device
    /\ block_device.mounted
    /\ block_device.mount_path # ""

\* the condition of the loop body of check_and_handle_mounted_partitions
InScopeMounted(block_device, device) ==
    /\ (block_device.path = device \/ StartsWith(block_device.path, device))
    /\ block_device.mounted
    /\ block_device.mount_path # ""

\* faulty variant: only the root file system is critical
IsCriticalRootOnly(block_device) == block_device.mount_path = "/"

IsCritical(block_device) == block_device.mount_path \in critical_mounts

\* The loop of check_and_handle_mounted_partitions from index i on, with the
\* mounted partitions collected so far: it stops at the first critical mount.
RECURSIVE ScanBlockDevices(_, _, _, _)
ScanBlockDevices(bds, device, i, acc) ==
    IF i > Len(bds) THEN [critical |-> FALSE, at |-> None, mounted |-> acc]
    ELSE IF InScopeMounted(bds[i], device)
         THEN IF IsCritical(bds[i])
              THEN [critical |-> TRUE, at |-> bds[i].path, mounted |-> acc]
              ELSE ScanBlockDevices(bds, device, i + 1,
                       Append(acc, [path |-> bds[i].path, mount_path |-> bds[i].mount_path]))
         ELSE ScanBlockDevices(bds, device, i + 1, acc)

\* proceed_with_recovery: creates and starts the job thread
ProceedWithRecovery ==
    /\ callbacks' = callbacks + 1
    /\ current_thread' = "alive"
    /\ job' = "start"

\* the GUI thread is free to run another handler
GuiFree == cancel \in {"idle", "done"}

\* start_recovery, up to and including the call of
\* check_and_handle_mounted_partitions
StartRecovery(device, dest, bds) ==
    /\ ui = "idle"
    /\ ui' = "started"
    /\ device_path' = device
    /\ IF device = None \/ ~dest
       THEN /\ toast' = "Please select both device and destination"
            /\ UNCHANGED <<block_devices, gate, gate_return, mounted_partitions, callbacks,
                           cancel_requested, recovery_dialog, current_thread, job, phases>>
       ELSE /\ cancel_requested' = FALSE
            /\ recovery_dialog' = "open"
            /\ block_devices' = bds
            /\ phases' = Append(phases, "mount-check")
            /\ LET scan == ScanBlockDevices(bds, device, 1, <<>>) IN
               IF scan.critical
               THEN /\ toast' = "Cannot proceed: Critical system partition"
                    /\ gate' = "blocked-critical"
                    /\ gate_return' = "False"
                    /\ UNCHANGED <<mounted_partitions, callbacks, current_thread, job>>
               ELSE IF scan.mounted = <<>>
               THEN /\ ProceedWithRecovery
                    /\ gate' = "proceeding"
                    /\ gate_return' = "True"
                    /\ UNCHANGED <<mounted_partitions, toast>>
               ELSE /\ mounted_partitions' = scan.mounted
                    /\ gate' = "prompting"
                    /\ gate_return' = "False"
                    /\ UNCHANGED <<toast, callbacks, current_thread, job>>
    /\ UNCHANGED <<response, unmount_attempts, unmount_results, failed_partitions,
                   idle_pending>>
    /\ UNCHANGED <<close_pending, cancel, current_process, ctl_cancel_file_path, label,
                   terminal, device_partition_paths, remove_duplicates>>
    /\ UNCHANGED <<objVars, helperVars, phaseVars>>
    /\ UNCHANGED <<layoutVars, uniqueVars, restartVars, ownerVars, unitVars, moveVars>>
    /\ UNCHANGED <<relocVars>>

\* faulty variant: the result of the last unmount overwrites the earlier ones
FailedOfLast(parts, ok, i) ==
    IF parts = <<>> \/ ok[Len(parts)] THEN <<>> ELSE <<parts[Len(parts)].path>>

\* paths of the mounted partitions whose unmount failed, in list order
RECURSIVE FailedOf(_, _, _)
FailedOf(parts, ok, i) ==
    IF i > Len(parts) THEN <<>>
    ELSE (IF ok[i] THEN <<>> ELSE <<parts[i].path>>) \o FailedOf(parts, ok, i + 1)

\* on_response of the unmount dialog; ok[i] is the result of
\* _unmount_partition for the i-th listed partition
OnResponse(resp, ok) ==
    /\ gate = "prompting"
    /\ GuiFree
    /\ response' = resp
    /\ IF resp = "unmount"
       THEN LET failed == FailedOf(mounted_partitions, ok, 1) IN
            /\ unmount_attempts' = [i \in 1..Len(mounted_partitions) |-> mounted_partitions[i].path]
            /\ unmount_results' = ok
            /\ failed_partitions' = failed
            /\ IF failed = <<>>
               THEN /\ idle_pending' = idle_pending + 1
                    /\ gate' = "proceeding"
                    /\ UNCHANGED toast
               ELSE /\ toast' = "Failed to unmount"
                    /\ gate' = "halted"
                    /\ UNCHANGED idle_pending
       ELSE IF resp = "continue"
       THEN /\ idle_pending' = idle_pending + 1
            /\ gate' = "proceeding"
            /\ UNCHANGED <<unmount_attempts, unmount_results, failed_partitions, toast>>
       ELSE /\ gate' = "cancelled"
            /\ UNCHANGED <<unmount_attempts, unmount_results, failed_partitions, toast,
                           idle_pending>>
    /\ UNCHANGED <<ui, device_path, block_devices, gate_return, mounted_partitions, callbacks>>
    /\ UNCHANGED <<ctlVars, objVars, helperVars, phaseVars>>
    /\ UNCHANGED <<layoutVars, uniqueVars, restartVars, ownerVars, unitVars, moveVars>>
    /\ UNCHANGED <<relocVars>>

\* the GLib main loop runs a queued success callback
RunIdleCallback ==
    /\ idle_pending > 0
    /\ GuiFree
    /\ idle_pending' = idle_pending - 1
    /\ ProceedWithRecovery
    /\ UNCHANGED <<ui, device_path, block_devices, gate, gate_return, mounted_partitions,
                   response, unmount_attempts, unmount_results, failed_partitions, toast>>
    /\ UNCHANGED <<cancel_requested, recovery_dialog, close_pending, cancel,
                   current_process, ctl_cancel_file_path, label, terminal,
                   device_partition_paths, remove_duplicates, phases>>
    /\ UNCHANGED <<objVars, helperVars, phaseVars>>
    /\ UNCHANGED <<layoutVars, uniqueVars, restartVars, ownerVars, unitVars, moveVars>>
    /\ UNCHANGED <<relocVars>>

Responses == {"cancel", "continue", "unmount"}

----------------------------------------------------------------------------
(* Privileged imaging helper: the command line and its parsing *)

\* number of entries of the list `stages` of the helper's main()
LadderStages == 4

\* exit codes a ddrescue run can end with
ExitCodes == {0, 1}

OptPartitions == [opt |-> TRUE, val |-> <<"--partitions">>]
Arg(p) == [opt |-> FALSE, val |-> p]

\* validate_partition_paths: paths under /dev/ are kept; the partitions of a
\* device all are under /dev/ (os.path.exists is not consulted for them)
RECURSIVE validate_partition_paths(_)
validate_partition_paths(paths) ==
    IF paths = <<>> THEN <<>>
    ELSE (IF StartsWith(Head(paths), <<"/dev/">>) THEN <<Head(paths)>> ELSE <<>>)
         \o validate_partition_paths(Tail(paths))

\* run_with_pkexec: "for p in self.partition_paths: cmd.extend(['--partitions', p])"
RECURSIVE BuildCmd(_)
BuildCmd(paths) ==
    IF paths = <<>> THEN <<>>
    ELSE <<OptPartitions, Arg(Head(paths))>> \o BuildCmd(Tail(paths))

\* argparse, add_argument('--partitions', nargs='*', default=[]): the store
\* action assigns the values that follow one occurrence of the option, so a
\* later occurrence replaces what an earlier one stored
RECURSIVE ParseFrom(_, _, _)
ParseFrom(tokens, i, cur) ==
    IF i > Len(tokens) THEN cur
    ELSE IF tokens[i].opt THEN ParseFrom(tokens, i + 1, <<>>)
    ELSE ParseFrom(tokens, i + 1, Append(cur, tokens[i].val))

ParsePartitions(tokens) == ParseFrom(tokens, 1, <<>>)

----------------------------------------------------------------------------
(* Privileged imaging helper: the process *)

NumUnits == LadderStages + Len(args_partitions)

\* the source ddrescue reads for a unit: dev for a ladder stage, ppath else
UnitSource(u) == IF u <= LadderStages THEN device_path ELSE args_partitions[u - LadderStages]

\* faulty variant: the helper looks for the flag under the pid-derived name
\* instead of the path given by --cancel-file
check_cancel_pid_path == legacy_flag

\* check_cancel()
check_cancel == flag_file

\* The helper leaves through sys.exit or the end of main(): the finally
\* clause of main() removes the cancellation-flag file if it exists.
HelperExit(code, why) ==
    /\ hp' = "exited"
    /\ exit_code' = code
    /\ exit_reason' = why
    /\ flag_file' = FALSE

\* main() up to the try block: parse_args
HelperMain ==
    /\ hp = "main"
    /\ args_partitions' = ParsePartitions(cmd)
    /\ unit' = 1
    /\ hp' = "loop"
    /\ UNCHANGED <<dd, returncode, exit_code, exit_reason, started, sigterm>>
    /\ UNCHANGED <<gateVars, ctlVars, objVars, phaseVars>>
    /\ UNCHANGED <<layoutVars, uniqueVars, restartVars, ownerVars, unitVars, moveVars>>
    /\ UNCHANGED <<relocVars>>

\* "if check_cancel(): sys.exit(1)" at the head of both loops of main()
HelperLoopCheck ==
    /\ hp = "loop"
    /\ IF check_cancel
       THEN /\ HelperExit(1, "cancel")
            /\ UNCHANGED <<partition_paths, cmd, helper_path, cancel_file_path,
                           script_file, legacy_flag, launches>>
       ELSE /\ hp' = "run"
            /\ UNCHANGED <<exit_code, exit_reason, objVars>>
    /\ UNCHANGED <<args_partitions, unit, dd, returncode, started, sigterm>>
    /\ UNCHANGED <<gateVars, ctlVars, phaseVars>>
    /\ UNCHANGED <<layoutVars, uniqueVars, restartVars, ownerVars, unitVars, moveVars>>
    /\ UNCHANGED <<relocVars>>

\* run(): "if check_cancel(): sys.exit(1)" before Popen
HelperRunCheck ==
    /\ hp = "run"
    /\ IF check_cancel
       THEN /\ HelperExit(1, "cancel")
            /\ UNCHANGED <<partition_paths, cmd, helper_path, cancel_file_path,
                           script_file, legacy_flag, launches>>
       ELSE /\ hp' = "popen"
            /\ UNCHANGED <<exit_code, exit_reason, objVars>>
    /\ UNCHANGED <<args_partitions, unit, dd, returncode, started, sigterm>>
    /\ UNCHANGED <<gateVars, ctlVars, phaseVars>>
    /\ UNCHANGED <<layoutVars, uniqueVars, restartVars, ownerVars, unitVars, moveVars>>
    /\ UNCHANGED <<relocVars>>

\* run(): current_process = subprocess.Popen(cmd); ddrescue creates its
\* output file in the working directory
HelperPopen ==
    /\ hp = "popen"
    /\ dd' = "running"
    /\ started' = Append(started, unit)
    /\ images' = images \cup {UnitSource(unit)}
    /\ hp' = "poll"
    /\ UNCHANGED <<args_partitions, unit, returncode, exit_code, exit_reason, sigterm>>
    /\ UNCHANGED <<working_dir, scan_list, scan_idx, pr, scanned, recovered, rd, classified,
                   rd_returncode, dedup_outcome>>
    /\ UNCHANGED <<gateVars, ctlVars, objVars>>
    \* a file ddrescue creates belongs to the elevated user; a file that
    \* exists keeps its owner
    /\ root_owned' = IF UnitSource(unit) \in images THEN root_owned
                     ELSE root_owned \cup {UnitSource(unit)}
    /\ UNCHANGED <<layoutVars, uniqueVars, restartVars, unitVars, moveVars, relocVars>>

\* the ddrescue subprocess ends by itself
DDRescueExit(rc) ==
    /\ dd = "running"
    /\ dd' = "exited"
    /\ returncode' = rc
    /\ UNCHANGED <<hp, args_partitions, unit, exit_code, exit_reason, started, sigterm>>
    /\ UNCHANGED <<gateVars, ctlVars, objVars, phaseVars>>
    /\ UNCHANGED <<layoutVars, uniqueVars, restartVars, ownerVars, unitVars, moveVars>>
    /\ UNCHANGED <<relocVars>>

\* faulty variant: the poll loop is left while ddrescue is still running
HelperPollNoWait ==
    /\ hp = "poll"
    /\ hp' = "after"
    /\ UNCHANGED <<args_partitions, unit, dd, returncode, exit_code, exit_reason,
                   started, sigterm>>
    /\ UNCHANGED <<gateVars, ctlVars, objVars, phaseVars>>
    /\ UNCHANGED <<layoutVars, uniqueVars, restartVars, ownerVars, unitVars, moveVars>>
    /\ UNCHANGED <<relocVars>>

\* run(): "while current_process.poll() is None"
HelperPoll ==
    /\ hp = "poll"
    /\ hp' = IF dd = "running" THEN "sleep" ELSE "after"
    /\ UNCHANGED <<args_partitions, unit, dd, returncode, exit_code, exit_reason,
                   started, sigterm>>
    /\ UNCHANGED <<gateVars, ctlVars, objVars, phaseVars>>
    /\ UNCHANGED <<layoutVars, uniqueVars, restartVars, ownerVars, unitVars, moveVars>>
    /\ UNCHANGED <<relocVars>>

\* -signal.SIGTERM, the returncode of a terminated subprocess
Terminated == -15

\* run(): time.sleep(1), then "if check_cancel():" terminate, wait (kill
\* after the grace period), sys.exit(1)
HelperSleepCheck ==
    /\ hp = "sleep"
    /\ IF check_cancel
       THEN /\ dd' = "exited"
            /\ returncode' = IF dd = "running" THEN Terminated ELSE returncode
            /\ HelperExit(1, "cancel")
            /\ UNCHANGED <<partition_paths, cmd, helper_path, cancel_file_path,
                           script_file, legacy_flag, launches>>
       ELSE /\ hp' = "poll"
            /\ UNCHANGED <<dd, returncode, exit_code, exit_reason, objVars>>
    /\ UNCHANGED <<args_partitions, unit, started, sigterm>>
    /\ UNCHANGED <<gateVars, ctlVars, phaseVars>>
    /\ UNCHANGED <<layoutVars, uniqueVars, restartVars, ownerVars, unitVars, moveVars>>
    /\ UNCHANGED <<relocVars>>

\* run() after the poll loop: "if returncode != 0: sys.exit(returncode)";
\* then main() restores ownership and goes to the next stage or partition,
\* or falls off the end of main()
HelperAfter ==
    /\ hp = "after"
    /\ dd' = "none"
    /\ IF returncode # 0
       THEN /\ HelperExit(returncode, "failed")
            /\ UNCHANGED <<unit, partition_paths, cmd, helper_path, cancel_file_path,
                           script_file, legacy_flag, launches>>
       ELSE IF unit < NumUnits
       THEN /\ unit' = unit + 1
            /\ hp' = "loop"
            /\ UNCHANGED <<exit_code, exit_reason, objVars>>
       ELSE /\ HelperExit(0, "done")
            /\ UNCHANGED <<unit, partition_paths, cmd, helper_path, cancel_file_path,
                           script_file, legacy_flag, launches>>
    /\ UNCHANGED <<args_partitions, returncode, started, sigterm>>
    /\ UNCHANGED <<gateVars, ctlVars, phaseVars>>
    \* os.chown(img, ...), os.chown(mapf, ...) after a run() that returned
    /\ root_owned' = IF returncode # 0 THEN root_owned
                     ELSE root_owned \ {UnitSource(unit)}
    /\ UNCHANGED <<layoutVars, uniqueVars, restartVars, unitVars, moveVars, relocVars>>

\* signal_handler: terminates a running ddrescue, then sys.exit(1)
HelperSignal ==
    /\ sigterm
    /\ hp \notin {"none", "exited"}
    /\ sigterm' = FALSE
    /\ dd' = IF dd = "running" THEN "exited" ELSE dd
    /\ returncode' = IF dd = "running" THEN Terminated ELSE returncode
    /\ hp' = "exited"
    /\ exit_code' = 1
    /\ exit_reason' = "signal"
    \* a signal taken before main() has entered its try block skips the finally
    /\ flag_file' = IF hp = "main" THEN flag_file ELSE FALSE
    /\ UNCHANGED <<partition_paths, cmd, helper_path, cancel_file_path,
                   script_file, legacy_flag, launches>>
    /\ UNCHANGED <<args_partitions, unit, started>>
    /\ UNCHANGED <<gateVars, ctlVars, phaseVars>>
    /\ UNCHANGED <<layoutVars, uniqueVars, restartVars, ownerVars, unitVars, moveVars>>
    /\ UNCHANGED <<relocVars>>

----------------------------------------------------------------------------
(* Recovery job controller: the job thread, _run_recovery_process *)

Cancelled == "Recovery cancelled"
Completed == "File recovery process completed successfully"
ImagingFailed == "Failed to create device image. Aborting recovery process."
CopyFailed == "Failed to copy image file. Aborting recovery process."
RecoveryFailed == "Recovery process failed."

\* the texts that report a failure of the job
FailureTexts == {ImagingFailed, CopyFailed, RecoveryFailed}

\* set_output_label(text) followed by return: the text is queued while the
\* thread is still alive
JobFinish(text) ==
    /\ label' = text
    /\ terminal' = text
    /\ job' = "exiting"
    /\ UNCHANGED <<current_thread, close_pending>>

\* set_output_label(text) and on to the next statement
JobStep(pc, text) ==
    /\ label' = text
    /\ terminal' = text
    /\ job' = pc
    /\ UNCHANGED <<current_thread, close_pending>>

JobGoto(pc) ==
    /\ job' = pc
    /\ UNCHANGED <<label, terminal, current_thread, close_pending>>

\* the finally clause of _run_recovery_process queues _close_recovery_dialog
\* and the thread ends
JobExit ==
    /\ job = "exiting"
    /\ job' = "done"
    /\ current_thread' = IF later_threads = <<>> THEN "dead" ELSE current_thread
    /\ close_pending' = TRUE
    /\ UNCHANGED <<cancel_requested, recovery_dialog, cancel, current_process,
                   ctl_cancel_file_path, label, terminal, device_partition_paths,
                   remove_duplicates, phases>>
    /\ UNCHANGED <<gateVars, objVars, helperVars, phaseVars>>
    /\ UNCHANGED <<layoutVars, uniqueVars, restartVars, ownerVars, unitVars, moveVars>>
    /\ UNCHANGED <<relocVars>>

\* "if self.cancel_requested: set_output_label('Recovery cancelled'); return"
\* and otherwise the label of the phase that begins
JobCancelCheck(pc, text) ==
    IF cancel_requested THEN JobFinish(Cancelled) ELSE JobStep(pc, text)

is_image_file == ~StartsWith(device_path, <<"/dev/">>)

\* _is_partition on the paths of the model
IsPartitionPath(p) == p \in {sdb1, sdb2, sdc1}

\* window.device_dropdown_manager.partitions: the partition records
RECURSIVE PartitionsOf(_)
PartitionsOf(bds) ==
    IF bds = <<>> THEN <<>>
    ELSE (IF IsPartitionPath(Head(bds).path) THEN <<Head(bds)>> ELSE <<>>)
         \o PartitionsOf(Tail(bds))

\* the loop that fills device_partition_paths
RECURSIVE DevicePartitionPaths(_, _)
DevicePartitionPaths(partitions, device) ==
    IF partitions = <<>> THEN <<>>
    ELSE (IF StartsWith(Head(partitions).path, device) /\ Head(partitions).path # device
          THEN <<Head(partitions).path>> ELSE <<>>)
         \o DevicePartitionPaths(Tail(partitions), device)

\* first statement of the thread: the cancellation check at the top
JobStart ==
    /\ job = "start"
    /\ JobCancelCheck(IF is_image_file THEN "img_check" ELSE "dev_check",
                      "Starting data recovery...")
    /\ UNCHANGED <<cancel_requested, recovery_dialog, cancel, current_process,
                   ctl_cancel_file_path, device_partition_paths, remove_duplicates, phases>>
    /\ UNCHANGED <<gateVars, objVars, helperVars, phaseVars>>
    /\ UNCHANGED <<layoutVars, uniqueVars, restartVars, ownerVars, unitVars, moveVars>>
    /\ UNCHANGED <<relocVars>>

\* image-file source: cancellation check, then the copy is announced
JobImageCheck ==
    /\ job = "img_check"
    /\ JobCancelCheck("copy", "Copying image file to working directory...")
    /\ phases' = IF cancel_requested THEN phases ELSE Append(phases, "copy")
    /\ UNCHANGED <<cancel_requested, recovery_dialog, cancel, current_process,
                   ctl_cancel_file_path, device_partition_paths, remove_duplicates>>
    /\ UNCHANGED <<gateVars, objVars, helperVars, phaseVars>>
    /\ UNCHANGED <<layoutVars, uniqueVars, restartVars, ownerVars, unitVars, moveVars>>
    /\ UNCHANGED <<relocVars>>

\* faulty variant: the failure of the copy is reported but the return is
\* missing, so the job goes on to the recovery phase
JobCopyNoReturn(ok) ==
    /\ job = "copy"
    /\ IF ok
       THEN /\ images' = images \cup {device_path}
            /\ JobGoto("rec_check")
       ELSE /\ JobStep("rec_check", CopyFailed)
            /\ UNCHANGED images
    /\ UNCHANGED <<cancel_requested, recovery_dialog, cancel, current_process,
                   ctl_cancel_file_path, device_partition_paths, remove_duplicates, phases>>
    /\ UNCHANGED <<working_dir, scan_list, scan_idx, pr, scanned, recovered, rd, classified,
                   rd_returncode, dedup_outcome>>
    /\ UNCHANGED <<gateVars, objVars, helperVars>>
    /\ UNCHANGED <<layoutVars, uniqueVars, restartVars, ownerVars, unitVars, moveVars>>
    /\ UNCHANGED <<relocVars>>

\* shutil.copy2(device, working_image_path), which may raise
JobCopy(ok) ==
    /\ job = "copy"
    /\ IF ok
       THEN /\ images' = images \cup {device_path}
            /\ JobGoto("rec_check")
       ELSE /\ JobFinish(CopyFailed)
            /\ UNCHANGED images
    /\ UNCHANGED <<cancel_requested, recovery_dialog, cancel, current_process,
                   ctl_cancel_file_path, device_partition_paths, remove_duplicates, phases>>
    /\ UNCHANGED <<working_dir, scan_list, scan_idx, pr, scanned, recovered, rd, classified,
                   rd_returncode, dedup_outcome>>
    /\ UNCHANGED <<gateVars, objVars, helperVars>>
    /\ UNCHANGED <<layoutVars, uniqueVars, restartVars, ownerVars, unitVars, moveVars>>
    /\ UNCHANGED <<relocVars>>

\* device source: cancellation check, then the partition list is built
\* from scan_partitions_switch and the partition records
JobDeviceCheck(scan_partitions) ==
    /\ job = "dev_check"
    /\ IF cancel_requested
       THEN /\ JobFinish(Cancelled)
            /\ UNCHANGED device_partition_paths
       ELSE /\ JobGoto("imaging_check")
            /\ device_partition_paths' =
                   IF scan_partitions
                   THEN DevicePartitionPaths(PartitionsOf(block_devices), device_path)
                   ELSE <<>>
    /\ UNCHANGED <<cancel_requested, recovery_dialog, cancel, current_process,
                   ctl_cancel_file_path, remove_duplicates, phases>>
    /\ UNCHANGED <<gateVars, objVars, helperVars, phaseVars>>
    /\ UNCHANGED <<layoutVars, uniqueVars, restartVars, ownerVars, unitVars, moveVars>>
    /\ UNCHANGED <<relocVars>>

\* "Imaging": cancellation check, then pkexec_ddrescue is entered
JobImagingCheck ==
    /\ job = "imaging_check"
    /\ JobCancelCheck("create_temp", "Creating device image...")
    /\ phases' = IF cancel_requested THEN phases ELSE Append(phases, "imaging")
    /\ UNCHANGED <<cancel_requested, recovery_dialog, cancel, current_process,
                   ctl_cancel_file_path, device_partition_paths, remove_duplicates>>
    /\ UNCHANGED <<gateVars, objVars, helperVars, phaseVars>>
    /\ UNCHANGED <<layoutVars, uniqueVars, restartVars, ownerVars, unitVars, moveVars>>
    /\ UNCHANGED <<relocVars>>

\* DDRescueHelper.cleanup: removes the helper script and the flag file
\* where the object still knows their paths and they exist
Cleanup ==
    /\ script_file' = IF helper_path # "None" THEN FALSE ELSE script_file
    /\ helper_path' = IF helper_path # "None" /\ script_file THEN "None" ELSE helper_path
    /\ flag_file' = IF cancel_file_path # "None" THEN FALSE ELSE flag_file
    /\ cancel_file_path' = IF cancel_file_path # "None" /\ flag_file THEN "None"
                           ELSE cancel_file_path

\* pkexec_ddrescue up to create_secure_temp_files: the partition paths are
\* validated, the DDRescueHelper is built, and the two temp files are made
\* (ok) or making them raises, which runs cleanup and returns False
JobCreateTemp(ok) ==
    /\ job = "create_temp"
    /\ partition_paths' = validate_partition_paths(device_partition_paths)
    /\ IF ok
       THEN /\ script_file' = TRUE
            /\ helper_path' = "script"
            /\ cancel_file_path' = "flag"
            /\ flag_file' = FALSE
            /\ JobGoto("popen")
       ELSE /\ script_file' = FALSE
            /\ helper_path' = "None"
            /\ cancel_file_path' = "None"
            /\ UNCHANGED flag_file
            /\ JobFinish(ImagingFailed)
    /\ UNCHANGED <<cmd, legacy_flag, launches>>
    /\ UNCHANGED <<cancel_requested, recovery_dialog, cancel, current_process,
                   ctl_cancel_file_path, device_partition_paths, remove_duplicates, phases>>
    /\ UNCHANGED <<gateVars, helperVars, phaseVars>>
    /\ UNCHANGED <<layoutVars, uniqueVars, restartVars, ownerVars, unitVars, moveVars>>
    /\ UNCHANGED <<relocVars>>

\* run_with_pkexec: the command line is built and Popen starts the helper
\* under pkexec (ok), or Popen raises and the finally clause cleans up
JobPopen(ok) ==
    /\ job = "popen"
    /\ cmd' = BuildCmd(partition_paths)
    /\ IF ok
       THEN /\ hp' = "main"
            /\ launches' = launches + 1
            /\ JobGoto("set_process")
            /\ UNCHANGED <<script_file, helper_path, flag_file, cancel_file_path>>
       ELSE /\ Cleanup
            /\ JobFinish(ImagingFailed)
            /\ UNCHANGED <<hp, launches>>
    /\ UNCHANGED <<partition_paths, legacy_flag>>
    /\ UNCHANGED <<args_partitions, unit, dd, returncode, exit_code, exit_reason,
                   started, sigterm>>
    /\ UNCHANGED <<cancel_requested, recovery_dialog, cancel, current_process,
                   ctl_cancel_file_path, device_partition_paths, remove_duplicates, phases>>
    /\ UNCHANGED <<gateVars, phaseVars>>
    /\ UNCHANGED <<layoutVars, uniqueVars, restartVars, ownerVars, unitVars, moveVars>>
    /\ UNCHANGED <<relocVars>>

\* "controller.current_process = process"
JobSetProcess ==
    /\ job = "set_process"
    /\ current_process' = "helper"
    /\ JobGoto("set_path")
    /\ UNCHANGED <<cancel_requested, recovery_dialog, cancel, ctl_cancel_file_path,
                   device_partition_paths, remove_duplicates, phases>>
    /\ UNCHANGED <<gateVars, objVars, helperVars, phaseVars>>
    /\ UNCHANGED <<layoutVars, uniqueVars, restartVars, ownerVars, unitVars, moveVars>>
    /\ UNCHANGED <<relocVars>>

\* "controller.cancel_file_path = self.cancel_file_path"
JobSetPath ==
    /\ job = "set_path"
    /\ ctl_cancel_file_path' = cancel_file_path
    /\ JobGoto("wait")
    /\ UNCHANGED <<cancel_requested, recovery_dialog, cancel, current_process,
                   device_partition_paths, remove_duplicates, phases>>
    /\ UNCHANGED <<gateVars, objVars, helperVars, phaseVars>>
    /\ UNCHANGED <<layoutVars, uniqueVars, restartVars, ownerVars, unitVars, moveVars>>
    /\ UNCHANGED <<relocVars>>

\* "result_code = process.wait()" returns once the helper has exited
JobWait ==
    /\ job = "wait"
    /\ hp = "exited"
    /\ JobGoto("clear")
    /\ UNCHANGED <<cancel_requested, recovery_dialog, cancel, current_process,
                   ctl_cancel_file_path, device_partition_paths, remove_duplicates, phases>>
    /\ UNCHANGED <<gateVars, objVars, helperVars, phaseVars>>
    /\ UNCHANGED <<layoutVars, uniqueVars, restartVars, ownerVars, unitVars, moveVars>>
    /\ UNCHANGED <<relocVars>>

\* "controller.current_process = None"
JobClear ==
    /\ job = "clear"
    /\ current_process' = "None"
    /\ JobGoto("result")
    /\ UNCHANGED <<cancel_requested, recovery_dialog, cancel, ctl_cancel_file_path,
                   device_partition_paths, remove_duplicates, phases>>
    /\ UNCHANGED <<gateVars, objVars, helperVars, phaseVars>>
    /\ UNCHANGED <<layoutVars, uniqueVars, restartVars, ownerVars, unitVars, moveVars>>
    /\ UNCHANGED <<relocVars>>

\* the finally clause of run_with_pkexec: cleanup removes the helper script
\* and the cancel file the object knows
JobResult ==
    /\ job = "result"
    /\ Cleanup
    /\ JobGoto("return")
    /\ UNCHANGED <<partition_paths, cmd, legacy_flag, launches>>
    /\ UNCHANGED <<cancel_requested, recovery_dialog, cancel, current_process,
                   ctl_cancel_file_path, device_partition_paths, remove_duplicates, phases>>
    /\ UNCHANGED <<gateVars, helperVars, phaseVars>>
    /\ UNCHANGED <<layoutVars, uniqueVars, restartVars, ownerVars, unitVars, moveVars>>
    /\ UNCHANGED <<relocVars>>

\* run_with_pkexec returns result_code == 0 once cleanup has come back; a
\* False result ends the job with the imaging failure text
JobReturn ==
    /\ job = "return"
    /\ IF exit_code = 0 THEN JobGoto("rec_check") ELSE JobFinish(ImagingFailed)
    /\ UNCHANGED <<partition_paths, cmd, helper_path, cancel_file_path, script_file,
                   flag_file, legacy_flag, launches>>
    /\ UNCHANGED <<cancel_requested, recovery_dialog, cancel, current_process,
                   ctl_cancel_file_path, device_partition_paths, remove_duplicates, phases>>
    /\ UNCHANGED <<gateVars, helperVars, phaseVars>>
    /\ UNCHANGED <<layoutVars, uniqueVars, restartVars, ownerVars, unitVars, moveVars>>
    /\ UNCHANGED <<relocVars>>

----------------------------------------------------------------------------
(* Scanning phase: photorec_recover *)

\* the name under which the image of a source lies in the working directory:
\* the helper writes basename(dev) + ".img", the copy of an image-file source
\* keeps its own file name
WorkingName(source) ==
    IF StartsWith(source, <<"/dev/">>) THEN Tail(source) \o <<".img">> ELSE Tail(source)

\* _find_image_files sorts the names: "sdb.img" < "sdb1.img" < "sdb2.img",
\* and "d.img", "d.raw", the copies of the image-file sources, sort before them
SortedImages == <<image_file, raw_file, sdb, sdb1, sdb2, sdc1>>

RECURSIVE SortedOf(_, _)
SortedOf(order, present) ==
    IF order = <<>> THEN <<>>
    ELSE (IF Head(order) \in present THEN <<Head(order)>> ELSE <<>>)
         \o SortedOf(Tail(order), present)

\* the files of the working directory whose name ends with ".img", sorted
_find_image_files ==
    SortedOf(SortedImages, { f \in images : EndsWith(WorkingName(f), <<".img">>) })

\* "Recovery": cancellation check, then the option switches are read
JobRecoveryCheck(dupes) ==
    /\ job = "rec_check"
    /\ JobCancelCheck("photorec", "Starting recovery from image...")
    /\ phases' = IF cancel_requested THEN phases ELSE Append(phases, "scanning")
    /\ remove_duplicates' = IF cancel_requested THEN remove_duplicates ELSE dupes
    /\ UNCHANGED <<cancel_requested, recovery_dialog, cancel, current_process,
                   ctl_cancel_file_path, device_partition_paths>>
    /\ UNCHANGED <<gateVars, objVars, helperVars, phaseVars>>
    /\ UNCHANGED <<layoutVars, uniqueVars, restartVars, ownerVars, unitVars, moveVars>>
    /\ UNCHANGED <<relocVars>>

\* photorec_recover up to its loop: no image file is a failure of the phase,
\* and so is os.makedirs(recovery_dir) raising (~ok), which the except
\* clause of photorec_recover turns into False
JobPhotorec(ok) ==
    /\ job = "photorec"
    /\ IF ~ok \/ _find_image_files = <<>>
       THEN /\ JobFinish(RecoveryFailed)
            /\ UNCHANGED <<scan_list, scan_idx>>
       ELSE /\ scan_list' = _find_image_files
            /\ scan_idx' = 1
            /\ JobGoto("scan_start")
    /\ UNCHANGED <<cancel_requested, recovery_dialog, cancel, current_process,
                   ctl_cancel_file_path, device_partition_paths, remove_duplicates, phases>>
    /\ UNCHANGED <<images, working_dir, pr, scanned, recovered, rd, classified,
                   rd_returncode, dedup_outcome>>
    /\ UNCHANGED <<gateVars, objVars, helperVars>>
    /\ UNCHANGED <<layoutVars, uniqueVars, restartVars, ownerVars, unitVars, moveVars>>
    /\ UNCHANGED <<relocVars>>

\* the loop of photorec_recover goes to the next image, or the phase ends
NextImage ==
    IF scan_idx < Len(scan_list)
    THEN /\ scan_idx' = scan_idx + 1
         /\ JobGoto("scan_start")
    ELSE /\ UNCHANGED scan_idx
         /\ JobGoto("org_check")

\* what can happen when the scan of an image is set up
ScanOutcomes == {"started", "popen-raised", "makedirs-raised"}

\* _scan_image_file / run_photorec_on_source: Popen starts photorec, or
\* raises, which run_photorec_on_source catches and makes the scan of this
\* image fail; or os.makedirs(output_dir) of _scan_image_file raises, which
\* only the except clause of photorec_recover catches: it returns False
JobScanStart(outcome) ==
    /\ job = "scan_start"
    /\ IF outcome = "started"
       THEN /\ pr' = "running"
            /\ scanned' = Append(scanned, scan_list[scan_idx])
            /\ JobGoto("scan_poll")
            /\ UNCHANGED scan_idx
       ELSE IF outcome = "popen-raised"
       THEN /\ NextImage
            /\ UNCHANGED <<pr, scanned>>
       ELSE /\ JobFinish(RecoveryFailed)
            /\ UNCHANGED <<pr, scanned, scan_idx>>
    /\ UNCHANGED <<cancel_requested, recovery_dialog, cancel, current_process,
                   ctl_cancel_file_path, device_partition_paths, remove_duplicates, phases>>
    /\ UNCHANGED <<images, working_dir, scan_list, recovered, rd, classified,
                   rd_returncode, dedup_outcome>>
    /\ UNCHANGED <<gateVars, objVars, helperVars>>
    /\ UNCHANGED <<layoutVars, uniqueVars, restartVars, ownerVars, unitVars, moveVars>>
    /\ UNCHANGED <<relocVars>>

\* photorec writes a carved file into the recovered_files tree
PhotorecCarve ==
    /\ pr = "running"
    /\ recovered < MaxRecovered
    /\ recovered' = recovered + 1
    /\ UNCHANGED <<images, working_dir, scan_list, scan_idx, pr, scanned, rd, classified,
                   rd_returncode, dedup_outcome>>
    /\ UNCHANGED <<gateVars, ctlVars, objVars, helperVars>>
    /\ UNCHANGED <<layoutVars, uniqueVars, restartVars, ownerVars, unitVars, moveVars>>
    /\ UNCHANGED <<relocVars>>

\* photorec ends by itself, with any exit code
PhotorecExit ==
    /\ pr = "running"
    /\ pr' = "exited"
    /\ UNCHANGED <<images, working_dir, scan_list, scan_idx, scanned, recovered, rd, classified,
                   rd_returncode, dedup_outcome>>
    /\ UNCHANGED <<gateVars, ctlVars, objVars, helperVars>>
    /\ UNCHANGED <<layoutVars, uniqueVars, restartVars, ownerVars, unitVars, moveVars>>
    /\ UNCHANGED <<relocVars>>

\* the poll loop of run_photorec_on_source leaves: photorec has exited, or
\* cancel_requested is seen and photorec is terminated; either way the
\* loop of photorec_recover continues with the next image
JobScanPoll ==
    /\ job = "scan_poll"
    /\ pr = "exited" \/ cancel_requested
    /\ pr' = "none"
    /\ NextImage
    /\ UNCHANGED <<cancel_requested, recovery_dialog, cancel, current_process,
                   ctl_cancel_file_path, device_partition_paths, remove_duplicates, phases>>
    /\ UNCHANGED <<images, working_dir, scan_list, scanned, recovered, rd, classified,
                   rd_returncode, dedup_outcome>>
    /\ UNCHANGED <<gateVars, objVars, helperVars>>
    /\ UNCHANGED <<layoutVars, uniqueVars, restartVars, ownerVars, unitVars, moveVars>>
    /\ UNCHANGED <<relocVars>>

----------------------------------------------------------------------------
(* Organisation: organize_and_cleanup *)

\* "Organise": cancellation check
JobOrganiseCheck ==
    /\ job = "org_check"
    /\ JobCancelCheck("org_images", "Organising recovered files...")
    /\ UNCHANGED <<cancel_requested, recovery_dialog, cancel, current_process,
                   ctl_cancel_file_path, device_partition_paths, remove_duplicates, phases>>
    /\ UNCHANGED <<gateVars, objVars, helperVars, phaseVars>>
    /\ UNCHANGED <<layoutVars, uniqueVars, restartVars, ownerVars, unitVars, moveVars>>
    /\ UNCHANGED <<relocVars>>

\* organize_and_cleanup: move_image_files_to_destination or
\* _cleanup_image_files take the image files out of the working directory;
\* all stay when the first move or removal raises (~ok; the exception is
\* swallowed)
JobOrgImages(ok) ==
    /\ job = "org_images"
    /\ images' = IF ok
                  THEN { f \in images : ~EndsWith(WorkingName(f), <<".img">>) }
                  ELSE images
    /\ JobGoto(IF remove_duplicates THEN "dedup" ELSE "logs")
    /\ UNCHANGED <<cancel_requested, recovery_dialog, cancel, current_process,
                   ctl_cancel_file_path, device_partition_paths, remove_duplicates, phases>>
    /\ UNCHANGED <<working_dir, scan_list, scan_idx, pr, scanned, recovered, rd, classified,
                   rd_returncode, dedup_outcome>>
    /\ UNCHANGED <<gateVars, objVars, helperVars>>
    /\ root_owned' = root_owned \cap images'
    /\ UNCHANGED <<layoutVars, uniqueVars, restartVars, unitVars, moveVars, relocVars>>

\* what can happen when rdfind is to be started
DedupStarts == {"started", "missing", "raised"}

\* remove_duplicates_with_rdfind: rdfind is missing, and the function
\* returns; or Popen raises, which the except clause logs; or rdfind is
\* started
JobDedupStart(outcome) ==
    /\ job = "dedup"
    /\ phases' = Append(phases, "dedup")
    /\ IF outcome = "started"
       THEN /\ rd' = "running"
            /\ JobGoto("dedup_poll")
            /\ UNCHANGED dedup_outcome
       ELSE /\ UNCHANGED rd
            /\ dedup_outcome' = outcome
            /\ JobGoto("logs")
    /\ UNCHANGED rd_returncode
    /\ UNCHANGED <<cancel_requested, recovery_dialog, cancel, current_process,
                   ctl_cancel_file_path, device_partition_paths, remove_duplicates>>
    /\ UNCHANGED <<images, working_dir, scan_list, scan_idx, pr, scanned, recovered, classified>>
    /\ UNCHANGED <<gateVars, objVars, helperVars>>
    /\ UNCHANGED <<layoutVars, uniqueVars, restartVars, ownerVars, unitVars, moveVars>>
    /\ UNCHANGED <<relocVars>>

\* what rdfind can leave of the recovered files: at least one if there was one
KeptByRdfind == { n \in 0..recovered : (recovered > 0) => (n > 0) }

\* rdfind ends by itself with exit code rc; it deletes duplicates and keeps
\* one file of each
RdfindExit(kept, rc) ==
    /\ rd = "running"
    /\ rd' = "exited"
    /\ rd_returncode' = rc
    /\ recovered' = kept
    /\ UNCHANGED <<images, working_dir, scan_list, scan_idx, pr, scanned, classified,
                   dedup_outcome>>
    /\ UNCHANGED <<gateVars, ctlVars, objVars, helperVars>>
    /\ UNCHANGED <<layoutVars, uniqueVars, restartVars, ownerVars, unitVars, moveVars>>
    /\ UNCHANGED <<relocVars>>

\* how the poll loop of remove_duplicates_with_rdfind ends: by the exit code
\* when rdfind has exited, else by the cancellation check, which comes
\* before the timeout check
DedupEnd(timeout) ==
    IF rd = "exited" THEN (IF rd_returncode = 0 THEN "ok" ELSE "failed")
    ELSE IF cancel_requested THEN "cancelled"
    ELSE "timeout"

\* faulty variant: the poll loop is left on cancellation or timeout without
\* ending rdfind
JobDedupPollNoTerminate(timeout) ==
    /\ job = "dedup_poll"
    /\ rd = "exited" \/ cancel_requested \/ timeout
    /\ rd' = IF rd = "exited" THEN "none" ELSE rd
    /\ dedup_outcome' = DedupEnd(timeout)
    /\ JobGoto("logs")
    /\ UNCHANGED rd_returncode
    /\ UNCHANGED <<cancel_requested, recovery_dialog, cancel, current_process,
                   ctl_cancel_file_path, device_partition_paths, remove_duplicates, phases>>
    /\ UNCHANGED <<images, working_dir, scan_list, scan_idx, pr, scanned, recovered, classified>>
    /\ UNCHANGED <<gateVars, objVars, helperVars>>
    /\ UNCHANGED <<layoutVars, uniqueVars, restartVars, ownerVars, unitVars, moveVars>>
    /\ UNCHANGED <<relocVars>>

\* faulty variant: a nonzero exit code or a timeout of rdfind ends the job
\* with the failure text
JobDedupPollFatal(timeout) ==
    /\ job = "dedup_poll"
    /\ rd = "exited" \/ cancel_requested \/ timeout
    /\ rd' = "none"
    /\ dedup_outcome' = DedupEnd(timeout)
    /\ IF DedupEnd(timeout) \in {"failed", "timeout"}
       THEN JobFinish(RecoveryFailed)
       ELSE JobGoto("logs")
    /\ UNCHANGED rd_returncode
    /\ UNCHANGED <<cancel_requested, recovery_dialog, cancel, current_process,
                   ctl_cancel_file_path, device_partition_paths, remove_duplicates, phases>>
    /\ UNCHANGED <<images, working_dir, scan_list, scan_idx, pr, scanned, recovered, classified>>
    /\ UNCHANGED <<gateVars, objVars, helperVars>>
    /\ UNCHANGED <<layoutVars, uniqueVars, restartVars, ownerVars, unitVars, moveVars>>
    /\ UNCHANGED <<relocVars>>

\* the poll loop of remove_duplicates_with_rdfind leaves: rdfind has
\* exited, or cancel_requested is seen, or the timeout has passed (rdfind
\* is terminated in both cases); the function returns nothing
JobDedupPoll(timeout) ==
    /\ job = "dedup_poll"
    /\ rd = "exited" \/ cancel_requested \/ timeout
    /\ rd' = "none"
    /\ dedup_outcome' = DedupEnd(timeout)
    /\ JobGoto("logs")
    /\ UNCHANGED rd_returncode
    /\ UNCHANGED <<cancel_requested, recovery_dialog, cancel, current_process,
                   ctl_cancel_file_path, device_partition_paths, remove_duplicates, phases>>
    /\ UNCHANGED <<images, working_dir, scan_list, scan_idx, pr, scanned, recovered, classified>>
    /\ UNCHANGED <<gateVars, objVars, helperVars>>
    /\ UNCHANGED <<layoutVars, uniqueVars, restartVars, ownerVars, unitVars, moveVars>>
    /\ UNCHANGED <<relocVars>>

\* _handle_log_files: with enable_logs a failing shutil.move raises (~ok);
\* nothing catches it, so the thread ends through the finally clause of
\* _run_recovery_process without another label
JobLogs(ok) ==
    /\ job = "logs"
    /\ IF ok
       THEN JobGoto("classify")
       ELSE /\ job' = "done"
            /\ current_thread' = IF later_threads = <<>> THEN "dead" ELSE current_thread
            /\ close_pending' = TRUE
            /\ UNCHANGED <<label, terminal>>
    /\ UNCHANGED <<cancel_requested, recovery_dialog, cancel, current_process,
                   ctl_cancel_file_path, device_partition_paths, remove_duplicates, phases>>
    /\ UNCHANGED <<gateVars, objVars, helperVars, phaseVars>>
    /\ UNCHANGED <<layoutVars, uniqueVars, restartVars, ownerVars, unitVars, moveVars>>
    /\ UNCHANGED <<relocVars>>

\* organize_files_by_type, then "if success and working_dir: rmtree":
\* success is processed > 0 unless relocating raised (~ok)
JobClassify(ok) ==
    /\ job = "classify"
    /\ classified' = TRUE
    /\ phases' = Append(phases, "organization")
    /\ IF ok /\ recovered > 0
       THEN /\ recovered' = 0
            /\ working_dir' = FALSE
            /\ images' = {}
       ELSE UNCHANGED <<recovered, working_dir, images>>
    /\ JobGoto("final_check")
    /\ UNCHANGED <<cancel_requested, recovery_dialog, cancel, current_process,
                   ctl_cancel_file_path, device_partition_paths, remove_duplicates>>
    /\ UNCHANGED <<scan_list, scan_idx, pr, scanned, rd, rd_returncode, dedup_outcome>>
    /\ UNCHANGED <<gateVars, objVars, helperVars>>
    /\ root_owned' = root_owned \cap images'
    /\ UNCHANGED <<layoutVars, uniqueVars, restartVars, unitVars, moveVars, relocVars>>

\* the last cancellation check, then the success text
JobFinalCheck ==
    /\ job = "final_check"
    /\ JobFinish(IF cancel_requested THEN Cancelled ELSE Completed)
    /\ UNCHANGED <<cancel_requested, recovery_dialog, cancel, current_process,
                   ctl_cancel_file_path, device_partition_paths, remove_duplicates, phases>>
    /\ UNCHANGED <<gateVars, objVars, helperVars, phaseVars>>
    /\ UNCHANGED <<layoutVars, uniqueVars, restartVars, ownerVars, unitVars, moveVars>>
    /\ UNCHANGED <<relocVars>>

----------------------------------------------------------------------------
(* GUI thread: the cancellation dialog *)

\* _close_recovery_dialog, run by the main loop
CloseRecoveryDialog ==
    /\ close_pending
    /\ GuiFree
    /\ close_pending' = FALSE
    /\ recovery_dialog' = IF recovery_dialog = "open" THEN "closed" ELSE recovery_dialog
    /\ UNCHANGED <<cancel_requested, cancel, current_thread, current_process,
                   ctl_cancel_file_path, label, terminal, job, device_partition_paths,
                   remove_duplicates, phases>>
    /\ UNCHANGED <<gateVars, objVars, helperVars, phaseVars>>
    /\ UNCHANGED <<layoutVars, uniqueVars, restartVars, ownerVars, unitVars, moveVars>>
    /\ UNCHANGED <<relocVars>>

\* on_cancel_response("cancel"): "self.cancel_requested = True"
CancelRequest ==
    /\ recovery_dialog = "open"
    /\ cancel = "idle"
    /\ cancel_requested' = TRUE
    /\ cancel' = "file"
    /\ UNCHANGED <<recovery_dialog, close_pending, current_thread, current_process,
                   ctl_cancel_file_path, label, terminal, job, device_partition_paths,
                   remove_duplicates, phases>>
    /\ UNCHANGED <<gateVars, objVars, helperVars, phaseVars>>
    /\ UNCHANGED <<layoutVars, uniqueVars, restartVars, ownerVars, unitVars, moveVars>>
    /\ UNCHANGED <<relocVars>>

\* on_cancel_response: the flag file is written at controller.cancel_file_path
\* when the attribute is set, else at the legacy path when a process is known
CancelWriteFlag ==
    /\ cancel = "file"
    /\ cancel' = "terminate"
    /\ IF ctl_cancel_file_path # "unset"
       THEN /\ flag_file' = TRUE
            /\ UNCHANGED legacy_flag
       ELSE IF current_process # "None"
       THEN /\ legacy_flag' = TRUE
            /\ UNCHANGED flag_file
       ELSE UNCHANGED <<flag_file, legacy_flag>>
    /\ UNCHANGED <<partition_paths, cmd, helper_path, cancel_file_path, script_file, launches>>
    /\ UNCHANGED <<cancel_requested, recovery_dialog, close_pending, current_thread,
                   current_process, ctl_cancel_file_path, label, terminal, job,
                   device_partition_paths, remove_duplicates, phases>>
    /\ UNCHANGED <<gateVars, helperVars, phaseVars>>
    /\ UNCHANGED <<layoutVars, uniqueVars, restartVars, ownerVars, unitVars, moveVars>>
    /\ UNCHANGED <<relocVars>>

\* on_cancel_response, line 105: the first read of self.current_process,
\* the truth test that guards the call
CancelGuard ==
    /\ cancel = "terminate"
    /\ cancel' = IF current_process # "None" THEN "poll" ELSE "label"
    /\ UNCHANGED <<recovery_dialog, helperVars>>
    /\ UNCHANGED <<cancel_requested, close_pending, current_thread,
                   current_process, ctl_cancel_file_path, label, terminal, job,
                   device_partition_paths, remove_duplicates, phases>>
    /\ UNCHANGED <<gateVars, objVars, phaseVars>>
    /\ UNCHANGED <<layoutVars, uniqueVars, restartVars, ownerVars, unitVars, moveVars>>
    /\ UNCHANGED <<relocVars>>

\* on_cancel_response, line 105: the second read, "self.current_process
\* .poll() is None".  The job thread may have cleared the attribute since
\* the first read: None has no poll(), and the AttributeError is raised
\* outside the try, so it leaves the handler with the dialog not closed
CancelPoll ==
    /\ cancel = "poll"
    /\ cancel' = IF current_process = "None" THEN "done"
                 ELSE IF hp # "exited" THEN "send" ELSE "label"
    /\ UNCHANGED <<recovery_dialog, helperVars>>
    /\ UNCHANGED <<cancel_requested, close_pending, current_thread,
                   current_process, ctl_cancel_file_path, label, terminal, job,
                   device_partition_paths, remove_duplicates, phases>>
    /\ UNCHANGED <<gateVars, objVars, phaseVars>>
    /\ UNCHANGED <<layoutVars, uniqueVars, restartVars, ownerVars, unitVars, moveVars>>
    /\ UNCHANGED <<relocVars>>

\* on_cancel_response, line 108: the third read, "self.current_process
\* .terminate()" inside the try: on a cleared attribute the AttributeError
\* is logged; else the signal reaches the helper (delivered) or sending it
\* raises, which is logged
CancelTerminate(delivered) ==
    /\ cancel = "send"
    /\ IF current_process = "helper" /\ delivered
       THEN /\ sigterm' = IF hp # "exited" THEN TRUE ELSE sigterm
            /\ cancel' = "wait"
       ELSE /\ cancel' = "label"
            /\ UNCHANGED sigterm
    /\ UNCHANGED <<hp, args_partitions, unit, dd, returncode, exit_code, exit_reason, started>>
    /\ UNCHANGED recovery_dialog
    /\ UNCHANGED <<cancel_requested, close_pending, current_thread,
                   current_process, ctl_cancel_file_path, label, terminal, job,
                   device_partition_paths, remove_duplicates, phases>>
    /\ UNCHANGED <<gateVars, objVars, phaseVars>>
    /\ UNCHANGED <<layoutVars, uniqueVars, restartVars, ownerVars, unitVars, moveVars>>
    /\ UNCHANGED <<relocVars>>

\* -signal.SIGKILL, the returncode of a killed process
Killed == -9

\* on_cancel_response: "self.current_process.wait(timeout=15)" returns
\* because the helper has exited (on a cleared attribute the AttributeError
\* is logged, and the helper has exited then too), or times out and the
\* helper is killed
CancelWait ==
    /\ cancel = "wait"
    /\ cancel' = "label"
    /\ IF hp = "exited"
       THEN UNCHANGED <<hp, exit_code, exit_reason, sigterm>>
       ELSE /\ hp' = "exited"
            /\ exit_code' = Killed
            /\ exit_reason' = "killed"
            /\ sigterm' = FALSE
    /\ UNCHANGED <<args_partitions, unit, dd, returncode, started>>
    /\ UNCHANGED <<cancel_requested, recovery_dialog, close_pending, current_thread,
                   current_process, ctl_cancel_file_path, label, terminal, job,
                   device_partition_paths, remove_duplicates, phases>>
    /\ UNCHANGED <<gateVars, objVars, phaseVars>>
    /\ UNCHANGED <<layoutVars, uniqueVars, restartVars, ownerVars, unitVars, moveVars>>
    /\ UNCHANGED <<relocVars>>

\* on_cancel_response: the transient label, then the dialog is closed
CancelLabel ==
    /\ cancel = "label"
    /\ cancel' = "done"
    /\ label' = IF current_thread = "alive" THEN "Cancelling recovery process..." ELSE label
    /\ recovery_dialog' = "closed"
    /\ UNCHANGED <<cancel_requested, close_pending, current_thread, current_process,
                   ctl_cancel_file_path, terminal, job, device_partition_paths,
                   remove_duplicates, phases>>
    /\ UNCHANGED <<gateVars, objVars, helperVars, phaseVars>>
    /\ UNCHANGED <<layoutVars, uniqueVars, restartVars, ownerVars, unitVars, moveVars>>
    /\ UNCHANGED <<relocVars>>

----------------------------------------------------------------------------
(* GUI thread: start_recovery invoked again.  The search action stays      *)
(* enabled for the life of the window, and start_recovery tests neither    *)
(* current_thread nor recovery_dialog, so the handler runs whenever no     *)
(* modal dialog covers the window.                                         *)

\* start_recovery invoked after an earlier invocation, with the same device
\* selected; a thread it starts is recorded in later_threads, and
\* current_thread then refers to that thread
StartRecoveryAgain(dest) ==
    /\ ui = "started"
    /\ GuiFree
    /\ recovery_dialog # "open"
    /\ gate # "prompting"
    /\ restarts < MaxRestarts
    /\ restarts' = restarts + 1
    /\ IF device_path = None \/ ~dest
       THEN /\ toast' = "Please select both device and destination"
            /\ UNCHANGED <<gate, gate_return, mounted_partitions, callbacks,
                           cancel_requested, recovery_dialog, cancel, current_thread,
                           phases, later_threads>>
       ELSE /\ cancel_requested' = FALSE
            /\ recovery_dialog' = "open"
            /\ cancel' = "idle"
            /\ phases' = Append(phases, "mount-check")
            /\ LET scan == ScanBlockDevices(block_devices, device_path, 1, <<>>) IN
               IF scan.critical
               THEN /\ toast' = "Cannot proceed: Critical system partition"
                    /\ gate' = "blocked-critical"
                    /\ gate_return' = "False"
                    /\ UNCHANGED <<mounted_partitions, callbacks, current_thread,
                                   later_threads>>
               ELSE IF scan.mounted = <<>>
               THEN /\ callbacks' = callbacks + 1
                    /\ current_thread' = "alive"
                    /\ later_threads' = Append(later_threads, "alive")
                    /\ gate' = "proceeding"
                    /\ gate_return' = "True"
                    /\ UNCHANGED <<mounted_partitions, toast>>
               ELSE /\ mounted_partitions' = scan.mounted
                    /\ gate' = "prompting"
                    /\ gate_return' = "False"
                    /\ UNCHANGED <<toast, callbacks, current_thread, later_threads>>
    /\ UNCHANGED <<ui, device_path, block_devices, response, unmount_attempts,
                   unmount_results, failed_partitions, idle_pending>>
    /\ UNCHANGED <<close_pending, current_process, ctl_cancel_file_path, label,
                   terminal, job, device_partition_paths, remove_duplicates>>
    /\ UNCHANGED <<objVars, helperVars, phaseVars, layoutVars, uniqueVars, ownerVars, unitVars>>
    /\ UNCHANGED <<moveVars, relocVars>>

\* the texts _run_recovery_process can end with
EndTexts == FailureTexts \cup {Completed, Cancelled}

\* a later job thread returns from _run_recovery_process: it has set the
\* output label, and its finally clause queues _close_recovery_dialog
LaterThreadExit(i, text) ==
    /\ i \in 1..Len(later_threads)
    /\ later_threads[i] = "alive"
    /\ later_threads' = [later_threads EXCEPT ![i] = "dead"]
    /\ current_thread' = IF i = Len(later_threads) THEN "dead" ELSE current_thread
    /\ label' = text
    /\ close_pending' = TRUE
    /\ UNCHANGED <<cancel_requested, recovery_dialog, cancel, current_process,
                   ctl_cancel_file_path, terminal, job, device_partition_paths,
                   remove_duplicates, phases, restarts>>
    /\ UNCHANGED <<gateVars, objVars, helperVars, phaseVars, layoutVars, uniqueVars,
                   ownerVars, unitVars>>
    /\ UNCHANGED <<moveVars, relocVars>>

----------------------------------------------------------------------------
(* Organisation: organize_files_by_type over a tree of recovered files.   *)
(* A file name is the sequence of its characters.                         *)

UpperCase == <<"A", "B", "G", "J", "P", "X", "Z">>
LowerCase == <<"a", "b", "g", "j", "p", "x", "z">>

\* str.lower on one character
Lower(c) ==
    IF \E i \in 1..Len(UpperCase) : UpperCase[i] = c
    THEN LowerCase[CHOOSE i \in 1..Len(UpperCase) : UpperCase[i] = c]
    ELSE c

\* the characters of the names that are not letters; of these only the full
\* stop is case-ignorable
Uncased == {".", "_", "0", "1", "2", "3", "4", "5", "6", "7", "8", "9"}

Cased(c) == c \notin Uncased

CaseIgnorable(c) == c = "."

\* a cased letter comes before position j + 1, case-ignorable characters
\* skipped
RECURSIVE PrevCased(_, _)
PrevCased(s, j) ==
    IF j = 0 THEN FALSE
    ELSE IF CaseIgnorable(s[j]) THEN PrevCased(s, j - 1)
    ELSE Cased(s[j])

\* a cased letter comes after position j - 1, case-ignorable characters
\* skipped
RECURSIVE NextCased(_, _)
NextCased(s, j) ==
    IF j > Len(s) THEN FALSE
    ELSE IF CaseIgnorable(s[j]) THEN NextCased(s, j + 1)
    ELSE Cased(s[j])

\* the capital sigma at position i ends a word: str.lower writes it as the
\* final sigma
FinalSigma(s, i) == PrevCased(s, i - 1) /\ ~NextCased(s, i + 1)

\* str.lower: character by character, but for the capital sigma, whose
\* lower-case form depends on its place in the string
lower(s) ==
    [i \in 1..Len(s) |->
        IF s[i] = "Sigma"
        THEN (IF FinalSigma(s, i) THEN "final_sigma" ELSE "sigma")
        ELSE Lower(s[i])]

\* str.rfind('.') as a 1-based index, 0 when there is no dot
LastDot(s) ==
    IF \E i \in 1..Len(s) : s[i] = "."
    THEN CHOOSE i \in 1..Len(s) :
            /\ s[i] = "."
            /\ \A j \in (i + 1)..Len(s) : s[j] # "."
    ELSE 0

\* os.path.splitext of a file name: split at the last dot, unless every
\* character before it is a dot
splitext(file) ==
    LET d == LastDot(file) IN
    IF d > 0 /\ \E i \in 1..(d - 1) : file[i] # "."
    THEN <<SubSeq(file, 1, d - 1), SubSeq(file, d, Len(file))>>
    ELSE <<file, <<>>>>

Digits == <<"0", "1", "2", "3", "4", "5", "6", "7", "8", "9">>

\* str(counter)
RECURSIVE Str(_)
Str(n) ==
    IF n < 10 THEN <<Digits[n + 1]>>
    ELSE Str(n \div 10) \o <<Digits[(n % 10) + 1]>>

\* the while loop of _get_unique_path; directory is the set of the names
\* that exist in it
RECURSIVE UniqueFrom(_, _, _, _, _)
UniqueFrom(dir, base_name, ext, counter, dest_path) ==
    IF dest_path \notin dir THEN dest_path
    ELSE UniqueFrom(dir, base_name, ext, counter + 1,
                    base_name \o <<"_">> \o Str(counter) \o ext)

\* faulty variant: the counter starts at 0
GetUniquePathFromZero(dir, filename) ==
    UniqueFrom(dir, splitext(filename)[1], splitext(filename)[2], 0, filename)

_get_unique_path(dir, filename) ==
    UniqueFrom(dir, splitext(filename)[1], splitext(filename)[2], 1, filename)

\* file names photorec and the operator can have left in the tree
f_a_jpg == <<"a", ".", "j", "p", "g">>
f_A_JPG == <<"A", ".", "J", "P", "G">>
f_b_jpg == <<"b", ".", "j", "p", "g">>
f_B_jpg == <<"B", ".", "j", "p", "g">>
f_a == <<"a">>
f_b == <<"b">>
f_a_dot == <<"a", ".">>
f_b_dot == <<"b", ".">>
f_dot_jpg == <<".", "j", "p", "g">>
f_a_x_jpg == <<"a", ".", "x", ".", "j", "p", "g">>
f_report_xml == <<"r", "e", "p", "o", "r", "t", ".", "x", "m", "l">>
f_a_report_xml == <<"a", "_", "r", "e", "p", "o", "r", "t", ".", "x", "m", "l">>
f_a_xml == <<"a", ".", "x", "m", "l">>
f_a_Sigma == <<"a", ".", "Sigma">>

FileNames == {f_a_jpg, f_A_JPG, f_b_jpg, f_B_jpg, f_a, f_b, f_a_dot, f_b_dot,
              f_dot_jpg, f_a_x_jpg, f_report_xml, f_a_report_xml, f_a_xml, f_a_Sigma}

\* the directories os.walk visits under the photorec output directories
Roots == {"recovered_files_sdb/recup_dir.1", "recovered_files_sdb1/recup_dir.1"}

\* the trees of at most MaxFiles files
RECURSIVE TreesOf(_)
TreesOf(n) ==
    IF n = 0 THEN {{}}
    ELSE LET smaller == TreesOf(n - 1) IN
         smaller \cup { t \cup {[root |-> r, file |-> f]} :
                            t \in smaller, r \in Roots, f \in FileNames }

Trees == TreesOf(MaxFiles)

\* the buckets of the destination that are not named after an extension
no_file_type == <<"no_file_type">>
corrupted == <<"corrupted">>

\* the source of a file the destination held before the run
Preexisting == [root |-> "", file |-> <<>>]

\* what the destination can hold before the run
Destinations ==
    {{}, {[bucket |-> <<"j", "p", "g">>, name |-> f_a_jpg, src |-> Preexisting]}}

\* faulty variant: only the exact name report.xml is a report
IsReportExact(file) ==
    file = f_report_xml

\* file in ["report.xml"] or file.endswith("_report.xml")
IsReport(file) ==
    \/ file = f_report_xml
    \/ EndsWith(file, <<"_">> \o f_report_xml)

\* '.' in file and not file.startswith('.')
HasDot(file) ==
    /\ \E i \in 1..Len(file) : file[i] = "."
    /\ ~StartsWith(file, <<".">>)

\* os.path.splitext(file)[1][1:].lower()
ExtOf(file) ==
    LET ext == splitext(file)[2] IN
    IF ext = <<>> THEN <<>> ELSE lower(Tail(ext))

\* the walk of one iteration: report files are removed as they are met
Walked == { f \in tree : ~IsReport(f.file) }

\* the values current_ext can take: the first extension the walk meets
Extensions == { ExtOf(f.file) : f \in { g \in Walked : HasDot(g.file) } } \ {<<>>}

files_no_ext == { f \in Walked : ~HasDot(f.file) }

\* the orders in which a walk can list a set of files
Orders(files) ==
    { o \in [1..Cardinality(files) -> files] :
        \A i, j \in 1..Cardinality(files) : o[i] = o[j] => i = j }

\* the names that exist in one bucket
NamesIn(dst, b) == { d.name : d \in { e \in dst : e.bucket = b } }

\* the copy-and-remove loop both processors run: a name that starts with
\* 'b' or 'B' goes to corrupted, every other name to the given bucket
RECURSIVE MoveFiles(_, _, _)
MoveFiles(files, bucket, dst) ==
    IF files = <<>> THEN dst
    ELSE LET f == Head(files)
             b == IF StartsWith(lower(f.file), <<"b">>) THEN corrupted ELSE bucket
             dest == _get_unique_path(NamesIn(dst, b), f.file)
         IN  MoveFiles(Tail(files), bucket,
                       dst \cup {[bucket |-> b, name |-> dest, src |-> f]})

_process_files_without_extension(files, dst) ==
    MoveFiles(files, no_file_type, dst)

\* file.lower().endswith(f'.{extension}')
Matches(f, extension) == EndsWith(lower(f.file), <<".">> \o extension)

_process_files_with_extension(files, extension, dst) ==
    MoveFiles(SelectSeq(files, LAMBDA f : Matches(f, extension)), extension, dst)

\* one iteration that finds no extension and some files without one
OrganizeNoExtension ==
    /\ lpc = "loop"
    /\ Extensions = {}
    /\ files_no_ext # {}
    /\ \E files \in Orders(files_no_ext) :
        /\ destination' = _process_files_without_extension(files, destination)
        /\ tree' = Walked \ files_no_ext
        /\ processed' = processed + Len(files)
    /\ UNCHANGED <<recovered_files, lpc, keep_corrupted_files>>
    /\ UNCHANGED <<gateVars, ctlVars, objVars, helperVars, phaseVars, uniqueVars, restartVars, ownerVars>>
    /\ UNCHANGED <<unitVars, moveVars, relocVars>>

\* one iteration that finds an extension
OrganizeExtension ==
    /\ lpc = "loop"
    /\ Extensions # {}
    /\ \E current_ext \in Extensions, files \in Orders(Walked) :
        LET moved == SelectSeq(files, LAMBDA f : Matches(f, current_ext)) IN
        /\ destination' = _process_files_with_extension(files, current_ext, destination)
        /\ tree' = Walked \ { moved[i] : i \in 1..Len(moved) }
        /\ processed' = processed + Len(moved)
    /\ UNCHANGED <<recovered_files, lpc, keep_corrupted_files>>
    /\ UNCHANGED <<gateVars, ctlVars, objVars, helperVars, phaseVars, uniqueVars, restartVars, ownerVars>>
    /\ UNCHANGED <<unitVars, moveVars, relocVars>>

\* the iteration that finds nothing to process: break
OrganizeBreak ==
    /\ lpc = "loop"
    /\ Extensions = {}
    /\ files_no_ext = {}
    /\ tree' = Walked
    /\ lpc' = "done"
    /\ UNCHANGED <<recovered_files, destination, processed, keep_corrupted_files>>
    /\ UNCHANGED <<gateVars, ctlVars, objVars, helperVars, phaseVars, uniqueVars, restartVars, ownerVars>>
    /\ UNCHANGED <<unitVars, moveVars, relocVars>>

\* return processed > 0
organize_files_by_type == processed > 0

\* organize_and_cleanup after organize_files_by_type has returned: "if
\* success and working_dir: shutil.rmtree(working_dir)" removes whatever the
\* trees still hold
OrganizeCleanup ==
    /\ lpc = "done"
    /\ IF organize_files_by_type
       THEN /\ tree' = {}
            /\ lpc' = "removed"
       ELSE /\ lpc' = "kept"
            /\ UNCHANGED tree
    /\ UNCHANGED <<recovered_files, destination, processed, keep_corrupted_files>>
    /\ UNCHANGED <<gateVars, ctlVars, objVars, helperVars, phaseVars, uniqueVars, restartVars, ownerVars>>
    /\ UNCHANGED <<unitVars, moveVars, relocVars>>

\* ---- the processors one statement at a time: shutil.copy2, then os.remove

\* an iteration that finds an extension enters _process_files_with_extension
\* with the files the walk lists for it
RelocateExtension ==
    /\ lpc = "loop"
    /\ rpc = "idle"
    /\ Extensions # {}
    /\ \E current_ext \in Extensions, files \in Orders(Walked) :
        /\ batch' = SelectSeq(files, LAMBDA f : Matches(f, current_ext))
        /\ batch_dir' = current_ext
    /\ tree' = Walked
    \* a walk that finds no file of the extension returns 0 at once
    /\ rpc' = IF batch' = <<>> THEN "idle" ELSE "copy"
    /\ UNCHANGED <<recovered_files, destination, lpc, processed, keep_corrupted_files>>
    /\ UNCHANGED <<gateVars, ctlVars, objVars, helperVars, phaseVars, uniqueVars, restartVars, ownerVars>>
    /\ UNCHANGED <<unitVars, moveVars>>

\* an iteration that finds no extension and some files without one enters
\* _process_files_without_extension
RelocateNoExtension ==
    /\ lpc = "loop"
    /\ rpc = "idle"
    /\ Extensions = {}
    /\ files_no_ext # {}
    /\ \E files \in Orders(files_no_ext) : batch' = files
    /\ batch_dir' = no_file_type
    /\ tree' = Walked
    /\ rpc' = "copy"
    /\ UNCHANGED <<recovered_files, destination, lpc, processed, keep_corrupted_files>>
    /\ UNCHANGED <<gateVars, ctlVars, objVars, helperVars, phaseVars, uniqueVars, restartVars, ownerVars>>
    /\ UNCHANGED <<unitVars, moveVars>>

\* the directory and the free path of the file the loop is at
DestOf(f) ==
    LET b == IF StartsWith(lower(f.file), <<"b">>) THEN corrupted ELSE batch_dir
    IN  [bucket |-> b, name |-> _get_unique_path(NamesIn(destination, b), f.file),
         src |-> f]

\* faulty variant: the file is moved, its source is gone whether or not the
\* copy exists
RelocateCopyRemoves(ok) ==
    /\ rpc = "copy"
    /\ tree' = tree \ {Head(batch)}
    /\ IF ok
       THEN /\ destination' = destination \cup {DestOf(Head(batch))}
            /\ rpc' = "remove"
            /\ UNCHANGED lpc
       ELSE /\ rpc' = "raised"
            /\ lpc' = "failed"
            /\ UNCHANGED destination
    /\ UNCHANGED <<recovered_files, processed, keep_corrupted_files, batch, batch_dir>>
    /\ UNCHANGED <<gateVars, ctlVars, objVars, helperVars, phaseVars, uniqueVars, restartVars, ownerVars>>
    /\ UNCHANGED <<unitVars, moveVars>>

\* "shutil.copy2(src, dest)": the copy exists at the free path (ok), or the
\* copy raises, which leaves the processor and organize_files_by_type
\* (return False)
RelocateCopy(ok) ==
    /\ rpc = "copy"
    /\ IF ok
       THEN /\ destination' = destination \cup {DestOf(Head(batch))}
            /\ rpc' = "remove"
            /\ UNCHANGED lpc
       ELSE /\ rpc' = "raised"
            /\ lpc' = "failed"
            /\ UNCHANGED destination
    /\ UNCHANGED <<recovered_files, tree, processed, keep_corrupted_files, batch, batch_dir>>
    /\ UNCHANGED <<gateVars, ctlVars, objVars, helperVars, phaseVars, uniqueVars, restartVars, ownerVars>>
    /\ UNCHANGED <<unitVars, moveVars>>

\* "os.remove(src); processed += 1" and on to the next file of the batch,
\* or os.remove raises
RelocateRemove(ok) ==
    /\ rpc = "remove"
    /\ IF ok
       THEN /\ tree' = tree \ {Head(batch)}
            /\ batch' = Tail(batch)
            /\ processed' = processed + 1
            /\ rpc' = IF Tail(batch) = <<>> THEN "idle" ELSE "copy"
            /\ UNCHANGED lpc
       ELSE /\ rpc' = "raised"
            /\ lpc' = "failed"
            /\ UNCHANGED <<tree, batch, processed>>
    /\ UNCHANGED <<recovered_files, destination, keep_corrupted_files, batch_dir>>
    /\ UNCHANGED <<gateVars, ctlVars, objVars, helperVars, phaseVars, uniqueVars, restartVars, ownerVars>>
    /\ UNCHANGED <<unitVars, moveVars>>

----------------------------------------------------------------------------
(* _get_unique_path called against one directory *)

u_x_jpg == <<"x", ".", "j", "p", "g">>
u_x_1_jpg == <<"x", "_", "1", ".", "j", "p", "g">>
u_x_2_jpg == <<"x", "_", "2", ".", "j", "p", "g">>
u_x == <<"x">>
u_x_1 == <<"x", "_", "1">>
u_dot_x == <<".", "x">>

\* names a directory can hold before the calls
DirectoryNames == {u_x_jpg, u_x_1_jpg, u_x_2_jpg, u_x, u_x_1, u_dot_x}

\* names a caller asks for
AskedNames == {u_x_jpg, u_x, u_dot_x, u_x_1_jpg}

\* one call; the caller may create the returned path before the next call
GetUniquePath(filename, created) ==
    /\ Len(calls) < MaxCalls
    /\ LET dest == _get_unique_path(directory, filename) IN
        /\ calls' = Append(calls, [filename |-> filename, before |-> directory,
                                   dest |-> dest])
        /\ directory' = IF created THEN directory \cup {dest} ELSE directory
    /\ UNCHANGED <<gateVars, ctlVars, objVars, helperVars, phaseVars, layoutVars, restartVars, ownerVars>>
    /\ UNCHANGED <<unitVars, moveVars, relocVars>>

----------------------------------------------------------------------------
(* The imaging units of a device job: the partition list that            *)
(* _run_recovery_process builds and pkexec_ddrescue hands to the helper.  *)

nvme0n1 == <<"/dev/", "n", "v", "m", "e", "0", "n", "1">>
nvme0n10 == <<"/dev/", "n", "v", "m", "e", "0", "n", "1", "0">>
nvme0n1p1 == <<"/dev/", "n", "v", "m", "e", "0", "n", "1", "p", "1">>
nvme0n1p2 == <<"/dev/", "n", "v", "m", "e", "0", "n", "1", "p", "2">>
nvme0n10p1 == <<"/dev/", "n", "v", "m", "e", "0", "n", "1", "0", "p", "1">>

\* whole devices the operator can select (_is_device)
UnitDevices == {sdb, nvme0n1, nvme0n10}

\* partition paths the dropdown manager can list (_is_partition)
UnitPartitions == {sdb1, sdc1, nvme0n1p1, nvme0n1p2, nvme0n10p1}

\* the partition lists of the dropdown manager: each path once
UnitPartitionLists ==
    { ps \in SeqsUpTo([path : UnitPartitions], MaxParts) :
        \A i, j \in 1..Len(ps) : i # j => ps[i].path # ps[j].path }

\* the job reads the switch, fills device_partition_paths, and
\* pkexec_ddrescue passes the validated paths to the helper
BuildPartitionList(scan) ==
    /\ upc = "ready"
    /\ scan_switch' = scan
    /\ handed' = validate_partition_paths(
                     IF scan THEN DevicePartitionPaths(dropdown_partitions, selected)
                     ELSE <<>>)
    /\ upc' = "done"
    /\ UNCHANGED <<selected, dropdown_partitions>>
    /\ UNCHANGED <<gateVars, ctlVars, objVars, helperVars, phaseVars>>
    /\ UNCHANGED <<layoutVars, uniqueVars, restartVars, ownerVars, moveVars, relocVars>>

----------------------------------------------------------------------------
(* Organisation: move_image_files_to_destination.  A file name is the     *)
(* sequence of the characters of its stem and its suffix.                 *)

\* str.isdigit on one character
IsDigit(c) == c \in {"0", "1", "2", "3", "4", "5", "6", "7", "8", "9"}

numbered_image == <<"/home/", "d", "1", ".img">>

\* values of device_path: whole devices, a partition, image files
MoveDevices == {sdb, nvme0n1, sdb1, image_file, numbered_image}

\* os.path.basename
basename(path) == Tail(path)

\* f"{device_name}.img", f"{device_name}.map"
ImgOf(device_name) == device_name \o <<".img">>
MapOf(device_name) == device_name \o <<".map">>

\* names the working directory can hold
WorkingNames ==
    { ImgOf(basename(d)) : d \in {sdb, sdb1, nvme0n1, nvme0n1p1} }
    \cup { MapOf(basename(d)) : d \in {sdb, sdb1, nvme0n1} }
    \cup { basename(image_file), basename(numbered_image), <<"l", "o", "g", ".txt">> }

\* what <destination>/WORKING can hold from an earlier run that saved its
\* image to the same destination
SavedBefore == {{}, {ImgOf(basename(sdb))}}

\* the sets of at most n names
RECURSIVE NameSets(_)
NameSets(n) ==
    IF n = 0 THEN {{}}
    ELSE LET smaller == NameSets(n - 1) IN
         smaller \cup { t \cup {f} : t \in smaller, f \in WorkingNames }

\* filename.endswith(('.img', '.map'))
IsImageOrMap(filename) ==
    EndsWith(filename, <<".img">>) \/ EndsWith(filename, <<".map">>)

\* not any(char.isdigit() for char in device_name)
is_whole_device(device_name) ==
    ~\E i \in 1..Len(device_name) : IsDigit(device_name[i])

\* target_files is None: "move all files"
MoveAll(device) ==
    ~(device # None /\ is_whole_device(basename(device)))

\* target_files when it is a list
target_files(device) ==
    {ImgOf(basename(device)), MapOf(basename(device))}

\* the loop over os.listdir(working_dir): every .img and .map file is moved
\* to WORKING or removed
move_image_files_to_destination ==
    /\ mvpc = "ready"
    /\ LET found == { f \in working_files : IsImageOrMap(f) }
           moved == IF MoveAll(move_device) THEN found
                    ELSE found \cap target_files(move_device)
       IN  \* shutil.move to <WORKING>/<filename> replaces a file of that name
           /\ working_dest' = working_dest \cup moved
           /\ replaced' = working_dest \cap moved
           /\ working_files' = working_files \ found
    /\ mvpc' = "done"
    /\ UNCHANGED <<move_device, listed, saved_before>>
    /\ UNCHANGED <<gateVars, ctlVars, objVars, helperVars, phaseVars>>
    /\ UNCHANGED <<layoutVars, uniqueVars, restartVars, ownerVars, unitVars, relocVars>>

----------------------------------------------------------------------------
(* Claims about the privileged imaging helper and the job's outcome *)

CancelReasons == {"cancel", "signal", "killed"}

\* the partitions for which the helper started ddrescue, in order
PartitionUnits == SelectSeq(started, LAMBDA u : u > LadderStages)
ImagedPartitions ==
    [i \in 1..Len(PartitionUnits) |-> args_partitions[PartitionUnits[i] - LadderStages]]

\* C1: whatever the exit codes of the ladder stages, a helper that was not
\* stopped by a cancellation has attempted stage 4 by the time it exits.
C1_LadderReachesStage4 ==
    (hp = "exited" /\ exit_reason \notin CancelReasons)
        => (\E i \in 1..Len(started) : started[i] = LadderStages)

\* C2: when a partition's single-pass run ends with a nonzero code after the
\* four ladder stages succeeded, the helper still exits 0 and the job does not
\* end with the imaging failure text.
C2_PartitionFailureIsolated ==
    (hp = "exited" /\ unit > LadderStages /\ returncode \in ExitCodes \ {0}
        /\ exit_reason \notin CancelReasons)
        => (exit_code = 0 /\ terminal # ImagingFailed)

\* C3: the helper is launched at most once, and a helper that exits 0 has
\* imaged exactly the partitions of the list given to DDRescueHelper, each
\* once and in list order.
C3_EveryPartitionImaged ==
    /\ launches <= 1
    /\ (hp = "exited" /\ exit_code = 0) => ImagedPartitions = partition_paths

\* C4: a job whose helper was stopped because it saw the operator's
\* cancellation flag ends with the text 'Recovery cancelled'.
C4_CancelReportsCancelled ==
    (job = "done" /\ exit_reason = "cancel") => terminal = Cancelled

\* a step in which the helper itself evaluates a cancellation check
HelperChecks ==
    /\ hp \in {"loop", "run", "sleep"}
    /\ hp' # hp
    /\ exit_reason' \notin {"signal", "killed"}

\* C5 as stated: once the flag file exists no ddrescue run is started any
\* more, and a helper that exits while the flag file exists exits nonzero.
C5_FlagStopsHelper ==
    [][ /\ (flag_file /\ flag_file') => started' = started
        /\ (flag_file /\ hp \notin {"none", "exited"} /\ hp' = "exited") => exit_code' # 0
      ]_vars

\* C5 amended: a cancellation check of the helper that finds the flag file
\* starts nothing, leaves no ddrescue running and exits nonzero; a helper that
\* has exited starts nothing; and ddrescue is started only by the step that
\* follows two checks that found no flag file.
C5_ObservedFlagStopsHelper ==
    [][ /\ (HelperChecks /\ flag_file)
            => (hp' = "exited" /\ exit_code' # 0 /\ exit_reason' = "cancel"
                /\ dd' # "running" /\ started' = started)
        /\ (HelperChecks /\ ~flag_file) => (hp' # "exited" /\ dd' = dd)
        /\ (hp = "exited") => (started' = started /\ hp' = "exited")
        /\ (started' # started) => hp = "popen"
      ]_vars

\* C5 witness: the helper saw the flag while ddrescue ran, terminated it and
\* exited 1
C5_Witness ==
    /\ hp = "exited"
    /\ exit_reason = "cancel"
    /\ exit_code = 1
    /\ returncode = Terminated
    /\ dd = "exited"

\* C6: once cancel_requested is true no further phase begins, files are not
\* classified and the working directory is not removed.
C6_NoPhaseAfterCancel ==
    [][ cancel_requested
            => (phases' = phases /\ classified' = classified /\ working_dir' = working_dir)
      ]_vars

\* position of a phase in the order of the pipeline
PhaseRank(p) ==
    CASE p = "mount-check" -> 1
      [] p \in {"imaging", "copy"} -> 2
      [] p = "scanning" -> 3
      [] p = "dedup" -> 4
      [] p = "organization" -> 5

LastPhaseRank == IF phases = <<>> THEN 0 ELSE PhaseRank(phases[Len(phases)])

----------------------------------------------------------------------------
(* Claims about the mount-safety gate *)

\* the gate has been entered: start_recovery got past its argument check
GateEntered == phases # <<>>

\* a record of the selected device or of a partition under it (a path that
\* extends the device path)
InScope(r) == r.path = device_path \/ StartsWith(r.path, device_path)

\* the in-scope records that are mounted, in the order of the list
InScopeMounts == SelectSeq(block_devices, LAMBDA r : InScope(r) /\ r.mounted /\ r.mount_path # "")

\* some in-scope record is mounted at one of the seven critical paths
HasCriticalMount ==
    \E i \in 1..Len(InScopeMounts) :
        InScopeMounts[i].mount_path \in {"/", "/home", "/boot", "/usr", "/var", "/tmp", "/opt"}

\* the {path, mount target} pairs of the in-scope mounts
MountPairs ==
    [i \in 1..Len(InScopeMounts) |->
        [path |-> InScopeMounts[i].path, mount_path |-> InScopeMounts[i].mount_path]]

\* start callbacks run or queued on the main loop
Scheduled == callbacks + idle_pending

\* C7: when an in-scope path is mounted at a critical path the gate refuses
\* the job whatever else is mounted and wherever the record stands in the
\* list: no dialog, no unmount, and the start callback is never invoked.
C7_CriticalMountRefuses ==
    (GateEntered /\ HasCriticalMount)
        => /\ gate = "blocked-critical"
           /\ gate_return = "False"
           /\ mounted_partitions = <<>>
           /\ response = "none"
           /\ unmount_attempts = <<>>
           /\ Scheduled = 0
           /\ current_thread = "None"
           /\ job = "none"

\* C7 witness: refused with a non-critical in-scope mount listed before the
\* critical one
C7_Witness ==
    /\ gate = "blocked-critical"
    /\ Len(InScopeMounts) = 2
    /\ InScopeMounts[1].mount_path = "/media/usb"
    /\ InScopeMounts[2].mount_path = "/var"

AllUnmounted == \A i \in 1..Len(unmount_results) : unmount_results[i]

\* positions in the prompt's list of the partitions whose unmount failed
FailedIndexes ==
    SelectSeq([i \in 1..Len(unmount_results) |-> i], LAMBDA i : ~unmount_results[i])

\* C9: after the prompt the start callback is scheduled, exactly once, if and
\* only if the operator chose continue-anyway, or unmount-and-continue with
\* every listed partition unmounted; never on cancel; and when an unmount
\* fails every listed partition has still been tried, the job does not
\* start and all failed paths are reported.
C9_StartIffContinueOrAllUnmounted ==
    /\ Scheduled <= 1
    /\ response # "none"
        => /\ Scheduled = 1 <=> (response = "continue" \/ (response = "unmount" /\ AllUnmounted))
           /\ Scheduled = 0 => (job = "none" /\ current_thread = "None")
           /\ response # "unmount" => unmount_attempts = <<>>
           /\ response = "unmount"
                => /\ unmount_attempts = [i \in 1..Len(mounted_partitions) |-> mounted_partitions[i].path]
                   /\ Len(unmount_results) = Len(mounted_partitions)
                   /\ failed_partitions =
                        [k \in 1..Len(FailedIndexes) |-> mounted_partitions[FailedIndexes[k]].path]
                   /\ ~AllUnmounted => (gate = "halted" /\ toast = "Failed to unmount")

\* C9 witness: two partitions listed, the first unmounted, the second not,
\* and the job not started
C9_Witness ==
    /\ gate = "halted"
    /\ Len(mounted_partitions) = 2
    /\ unmount_results = <<TRUE, FALSE>>
    /\ failed_partitions = <<mounted_partitions[2].path>>
    /\ Scheduled = 0


----------------------------------------------------------------------------
(* Claims about failures, scanning and image-file sources *)

\* the scanning phase has begun and photorec_recover has returned
ScanningOver == "scanning" \in {phases[i] : i \in 1..Len(phases)}
                /\ job \notin {"photorec", "scan_start", "scan_poll"}

PhaseSet == {phases[i] : i \in 1..Len(phases)}

\* C11: after a fatal condition (nothing selected, helper exited nonzero,
\* copy of the image source raised, no image file found) the job has ended
\* with a failure text and no later phase has begun: no carving or dedup
\* subprocess, no classification, and the working directory is still there.
C11_FatalHaltsJob ==
    /\ (ui = "started" /\ (device_path = None \/ ~GateEntered))
          => (toast = "Please select both device and destination"
              /\ job = "none" /\ Scheduled = 0 /\ launches = 0 /\ phases = <<>>)
    /\ (job = "done" /\ hp = "exited" /\ exit_code # 0) => terminal = ImagingFailed
    /\ (ScanningOver /\ scan_list = <<>>) => terminal = RecoveryFailed
    /\ terminal \in FailureTexts
          => /\ job \in {"exiting", "done"}
             /\ pr = "none" /\ rd = "none"
             /\ PhaseSet \cap {"dedup", "organization"} = {}
             /\ ~classified
             /\ working_dir
    /\ terminal \in {ImagingFailed, CopyFailed}
          => (scanned = <<>> /\ "scanning" \notin PhaseSet)
    /\ (terminal = RecoveryFailed /\ scan_list = <<>>) => scanned = <<>>

\* C11 witness: the copy of an image source was made, no image file was
\* found for scanning and the job ended with the failure text
C11_Witness ==
    /\ job = "done"
    /\ terminal = RecoveryFailed
    /\ images = {raw_file}
    /\ _find_image_files = <<>>
    /\ scanned = <<>>

\* C12: when photorec_recover has returned, its loop has gone through every
\* image file found, in sorted order, whatever happened to the scan of each;
\* and it has returned failure only if no image file was found.
C12_EveryImageScanned ==
    ScanningOver
        => /\ scan_idx = Len(scan_list)
           /\ scan_list = <<>> => terminal = RecoveryFailed
           /\ terminal = RecoveryFailed => _find_image_files = <<>>

\* C13: for an image-file source the imaging helper is never launched, and
\* when the scanning phase looks for images it finds the copy of the source.
C13_ImageSourceScanned ==
    (GateEntered /\ is_image_file)
        => /\ launches = 0
           /\ hp = "none"
           /\ "imaging" \notin PhaseSet
           /\ job = "photorec" => (device_path \in images /\ _find_image_files = <<device_path>>)

C19_WorkingDirOnlyOnSuccess ==
    /\ ~working_dir => classified
    /\ (job = "done" /\ ~working_dir) => terminal = Completed

----------------------------------------------------------------------------
(* Claims about the layout of the destination *)

\* a report file, as the specification names it
ReportName(file) ==
    \/ file = <<"r", "e", "p", "o", "r", "t", ".", "x", "m", "l">>
    \/ EndsWith(file, <<"_", "r", "e", "p", "o", "r", "t", ".", "x", "m", "l">>)

\* the files of the tree that are not reports
NonReports == { f \in recovered_files : ~ReportName(f.file) }

\* the copies of one file of the tree in the destination
CopiesOf(f) == { d \in destination : d.src = f }

\* the name starts with 'b' or 'B'
StartsWithB(file) == Len(file) > 0 /\ file[1] \in {"b", "B"}

\* C15: when organize_files_by_type has ended, every file of the tree that
\* is not a report has left the tree and has exactly one copy, in the
\* bucket of a lowercase extension of its name, in no_file_type or in
\* corrupted.
C15_EveryFileRelocatedOnce ==
    lpc = "done" =>
        \A f \in NonReports :
            /\ f \notin tree
            /\ Cardinality(CopiesOf(f)) = 1
            /\ \A d \in CopiesOf(f) :
                \/ d.bucket \in {no_file_type, corrupted}
                \/ /\ d.bucket = lower(d.bucket)
                   /\ EndsWith(lower(f.file), <<".">> \o d.bucket)

C17_BNamesToCorrupted ==
    /\ \A d \in destination :
        d.src \in recovered_files =>
            (StartsWithB(d.src.file) <=> d.bucket = corrupted)
    /\ lpc = "done" =>
        \A f \in NonReports :
            StartsWithB(f.file) =>
                \E d \in destination : d.src = f /\ d.bucket = corrupted

\* the k-th numbered name of a file name
Numbered(filename, k) ==
    splitext(filename)[1] \o <<"_">> \o Str(k) \o splitext(filename)[2]

\* C18: every call of _get_unique_path returns a name that did not exist:
\* the name asked for when it is free, otherwise the numbered name of the
\* smallest k >= 1 that is free; two calls for x.jpg against a directory
\* that holds x.jpg, the first result created in between, return x_1.jpg
\* and then x_2.jpg.
C18_UniquePath ==
    /\ \A i \in 1..Len(calls) :
        LET c == calls[i] IN
        /\ c.dest \notin c.before
        /\ c.filename \notin c.before => c.dest = c.filename
        /\ c.filename \in c.before =>
            \E k \in 1..Cardinality(c.before) :
                /\ c.dest = Numbered(c.filename, k)
                /\ \A j \in 1..(k - 1) : Numbered(c.filename, j) \in c.before
    /\ ( /\ Len(calls) = 2
         /\ calls[1].filename = u_x_jpg
         /\ calls[2].filename = u_x_jpg
         /\ calls[1].before = {u_x_jpg}
         /\ calls[2].before = {u_x_jpg, calls[1].dest} )
        => (calls[1].dest = u_x_1_jpg /\ calls[2].dest = u_x_2_jpg)

\* C18 witness: x.jpg existed, the first call returned x_1.jpg, which was
\* created, and the second call returned x_2.jpg
C18_Witness ==
    /\ Len(calls) = 2
    /\ calls[1].filename = u_x_jpg
    /\ calls[1].before = {u_x_jpg}
    /\ calls[1].dest = u_x_1_jpg
    /\ calls[2].filename = u_x_jpg
    /\ calls[2].before = {u_x_jpg, u_x_1_jpg}
    /\ calls[2].dest = u_x_2_jpg

----------------------------------------------------------------------------
(* Claims about the helper's files and the order of its invocations *)

\* C21: once the job thread has ended and on_cancel_response is not
\* running, no cancellation-flag file written by the controller exists.
C21_NoFlagAfterJob ==
    (job = "done" /\ cancel \in {"idle", "done"}) => (~flag_file /\ ~legacy_flag)

\* C22: when the helper has exited, on whatever path, no image or map file
\* it produced is owned by the elevated user.
C22_OwnershipRestored ==
    hp = "exited" => root_owned = {}

\* C24: a job thread that has ended has reported a terminal status, also
\* when the relocation of a log file failed, and a job that ended after the
\* organise phase began has had its files classified.
C24_LogFailureContinues ==
    job = "done" =>
        /\ terminal \in EndTexts
        /\ terminal \in {Completed} => classified

\* C25: in a job on /dev/sdb without partitions and with scan_partitions
\* off, whatever an earlier job left behind, the list of images to scan is
\* the image of the device alone, and only that image is scanned.
C25_OneImageScanned ==
    /\ scan_list \in {<<>>, <<sdb>>}
    /\ scanned \in {<<>>, <<sdb>>}

\* a path without its trailing digits
RECURSIVE StripDigits(_)
StripDigits(p) ==
    IF p # <<>> /\ IsDigit(p[Len(p)]) THEN StripDigits(SubSeq(p, 1, Len(p) - 1)) ELSE p

\* the whole device a partition path belongs to: /dev/sdb1 is on /dev/sdb,
\* /dev/nvme0n1p2 on /dev/nvme0n1
ParentDevice(p) ==
    LET q == StripDigits(p) IN
    IF Len(q) > 1 /\ q[Len(q)] = "p" /\ IsDigit(q[Len(q) - 1])
    THEN SubSeq(q, 1, Len(q) - 1)
    ELSE q

\* the paths of a list
PathsOf(ps) == { ps[i].path : i \in 1..Len(ps) }

\* C26: the partition list handed to the helper is empty when
\* scan_partitions is off, and holds exactly the listed partitions of the
\* selected device when it is on.
C26_UnitsAreOwnPartitions ==
    upc = "done" =>
        { handed[i] : i \in 1..Len(handed) } =
            IF scan_switch
            THEN { q \in PathsOf(dropdown_partitions) : ParentDevice(q) = selected }
            ELSE {}

\* C27: when run_with_pkexec returns, on every path (the temp files could not
\* be made, Popen raised, the helper exited with any code), neither the helper
\* script nor the cancellation-flag file at the helper's path exists
C27_NoHelperFilesOnReturn ==
    [][(job \in {"create_temp", "popen", "return"} /\ job' \in {"rec_check", "exiting"})
         => (~script_file' /\ ~flag_file')]_vars

\* C28: in organize_files_by_type, when the trees hold files without an
\* extension and files with one, the files without an extension are relocated
\* before any file of an extension batch: once a file with an extension has
\* its copy in the destination, no file without an extension is left to walk
C28_NoExtensionBatchFirst ==
    (\E d \in destination : d.src # Preexisting /\ HasDot(d.src.file))
        => ~\E f \in tree : ~ReportName(f.file) /\ ~HasDot(f.file)

\* C29: the helper runs its ddrescue invocations strictly in order, stage 1
\* to stage 4 and then the partitions in list order: the n-th invocation
\* started is unit n, it is started only when no ddrescue is running and the
\* one before it has exited with code 0, and a running ddrescue is given up
\* only by its exit, so at most one ddrescue subprocess exists at any time
C29_InvocationsInOrder ==
    [][/\ started' # started =>
            /\ started' = Append(started, Len(started) + 1)
            /\ dd # "running"
            /\ started # <<>> => returncode = 0
            /\ started'[Len(started')] > LadderStages =>
                    started'[Len(started')] - LadderStages \in 1..Len(args_partitions)
       /\ dd = "running" => dd' \in {"running", "exited"}]_vars

\* all four stages have exited and the imaging of the first partition runs
C29_Witness ==
    /\ started = <<1, 2, 3, 4, 5>>
    /\ dd = "running"

\* C30: relocation is copy-then-delete: at every moment each recovered file
\* that is not a report is at its source or has its copy in the destination,
\* the source is removed only once the copy exists, and when a copy raises
\* the source of that file is left in place
C30_CopyThenDelete ==
    /\ \A f \in recovered_files :
           ~ReportName(f.file) => (f \in tree \/ \E d \in destination : d.src = f)
    /\ rpc = "remove" => \E d \in destination : d.src = Head(batch)
    /\ rpc = "raised" => Head(batch) \in tree

\* a copy has raised on the second file of a batch, after the first file was
\* copied and removed
C30_Witness ==
    /\ rpc = "raised"
    /\ processed = 1
    /\ \A d \in destination : d.src # Head(batch)

\* the suffix of a name is .img or .map
ImageOrMapName(f) == f # <<>> /\ f[Len(f)] \in {".img", ".map"}

\* the .img and .map names the claim has relocated: the device's own pair
\* for a whole device, all of them for an image-file source
Relocated(device, names) ==
    IF StartsWith(device, <<"/dev/">>)
    THEN { f \in names : f \in {Tail(device) \o <<".img">>, Tail(device) \o <<".map">>} }
    ELSE { f \in names : ImageOrMapName(f) }

\* C23: after move_image_files_to_destination for a whole device or an
\* image-file source, WORKING holds exactly the names the claim relocates
\* and no .img or .map file is left in the working directory.
C23_OwnPairOrAllMoved ==
    (mvpc = "done" /\ move_device \in {sdb, nvme0n1, image_file, numbered_image}) =>
        /\ working_dest = Relocated(move_device, listed) \cup saved_before
        /\ \A f \in working_files : ~ImageOrMapName(f)

----------------------------------------------------------------------------
(* Claims about classification, cancellation and the end of organisation *)

\* the directory a file is copied to when it is the only file of the trees
AloneBucket(file) ==
    IF StartsWith(lower(file), <<"b">>) THEN corrupted
    ELSE IF HasDot(file) THEN ExtOf(file)
    ELSE no_file_type

\* C31: the destination bucket of a recovered file depends only on the file's
\* own name: whatever else the trees hold, a copy is in the bucket the file
\* gets when it is alone in the trees
C31_BucketByNameOnly ==
    \A d \in destination :
        d.src # Preexisting => d.bucket = AloneBucket(d.src.file)

\* the positions of the job thread from the cancellation check before
\* imaging until run_with_pkexec returns
ImagingPositions ==
    {"create_temp", "popen", "set_process", "set_path", "wait", "clear", "result", "return"}

\* C32: a cancel issued while the imaging phase is in progress creates the
\* flag file at the path the running helper polls, and writes neither to a
\* path of an earlier job nor to the fallback path
C32_CancelWritesHelperFlag ==
    [][(cancel = "file" /\ cancel' = "terminate" /\ job \in ImagingPositions)
         => (flag_file' /\ legacy_flag' = legacy_flag)]_vars

\* C33: whenever the cancel handler is about to call poll(), terminate() or
\* wait() on self.current_process, having found the attribute set, the job
\* thread has not cleared the attribute
C33_HandleNotClearedUnderHandler ==
    cancel \in {"poll", "send", "wait"} => current_process = "helper"

\* C35: in the scanning phase, once cancel_requested is true the carving
\* tool is not launched for any further image
C35_NoScanStartedAfterCancel ==
    [][cancel_requested => (scanned' = scanned /\ (pr' = "running" => pr = "running"))]_vars

\* C36: when organize_and_cleanup has removed the working directory, every
\* recovered file that is not a report has a copy in the destination
C36_NothingLostByCleanup ==
    lpc = "removed" =>
        \A f \in recovered_files :
            ~ReportName(f.file) => \E d \in destination : d.src = f

\* C37: the job ends with the success text only if organize_and_cleanup
\* succeeded, that is only if files were relocated and the working directory
\* was removed
C37_CompletedOnlyIfOrganised ==
    (job = "done" /\ terminal = Completed) => (classified /\ ~working_dir)

\* C38: the cancel handler's transient text is never queued after the job's
\* terminal text: when the job thread and the handler have both ended, the
\* label does not read 'Cancelling recovery process...'
C38_TransientTextNotLast ==
    (job = "done" /\ cancel \in {"idle", "done"})
        => label # "Cancelling recovery process..."

\* C39: organize_and_cleanup writes over no file that was under the
\* destination before it ran: the recovered files and the logs go to free
\* paths, and no image or map file is moved onto a name that exists
C39_NothingOverwritten ==
    replaced = {}

\* C40: organize_files_by_type terminates for every finite tree: its main
\* loop is left
C40_OrganizeTerminates ==
    <>(lpc # "loop")

----------------------------------------------------------------------------
(* Claims about repeated starts *)

\* the job threads that are alive
AliveThreads ==
    (IF job \in {"none", "done"} THEN 0 ELSE 1)
    + Cardinality({ i \in 1..Len(later_threads) : later_threads[i] = "alive" })

\* C20: the controller holds at most one active job: whatever the sequence
\* of start_recovery invocations, at most one job thread is alive.
C20_AtMostOneJobThread ==
    AliveThreads <= 1

\* C34: within one job the cancellation flag is monotonic: cancel_requested
\* goes from true to false only when no job thread is alive
C34_CancelRequestedMonotonic ==
    [][(cancel_requested /\ ~cancel_requested') => AliveThreads = 0]_vars

----------------------------------------------------------------------------

\* the controller before a start_recovery
ControllerIdle ==
    /\ ui = "idle"
    /\ device_path = None
    /\ block_devices = <<>>
    /\ gate = "checking"
    /\ gate_return = "none"
    /\ mounted_partitions = <<>>
    /\ response = "none"
    /\ unmount_attempts = <<>>
    /\ unmount_results = <<>>
    /\ failed_partitions = <<>>
    /\ toast = ""
    /\ idle_pending = 0
    /\ callbacks = 0
    /\ cancel_requested = FALSE
    /\ recovery_dialog = "none"
    /\ close_pending = FALSE
    /\ cancel = "idle"
    /\ current_thread = "None"
    /\ current_process = "None"
    /\ ctl_cancel_file_path = "unset"
    /\ label = ""
    /\ terminal = ""
    /\ job = "none"
    /\ device_partition_paths = <<>>
    /\ remove_duplicates = FALSE
    /\ phases = <<>>
    /\ partition_paths = <<>>
    /\ cmd = <<>>
    /\ helper_path = "None"
    /\ cancel_file_path = "None"
    /\ script_file = FALSE
    /\ flag_file = FALSE
    /\ legacy_flag = FALSE
    /\ launches = 0
    /\ hp = "none"
    /\ args_partitions = <<>>
    /\ unit = 0
    /\ dd = "none"
    /\ returncode = 0
    /\ exit_code = "none"
    /\ exit_reason = "none"
    /\ started = <<>>
    /\ sigterm = FALSE
    /\ working_dir = TRUE
    /\ scan_list = <<>>
    /\ scan_idx = 0
    /\ pr = "none"
    /\ scanned = <<>>
    /\ recovered = 0
    /\ rd = "none"
    /\ classified = FALSE
    /\ rd_returncode = 0
    /\ dedup_outcome = "none"
    /\ root_owned = {}

\* the controller after construction, before any start_recovery, with an
\* empty working directory
InitController ==
    /\ ControllerIdle
    /\ images = {}

\* no tree is being organised
LayoutIdle ==
    /\ recovered_files = {}
    /\ tree = {}
    /\ destination = {}
    /\ lpc = "idle"
    /\ processed = 0
    /\ keep_corrupted_files = FALSE

\* no directory is being asked for a free path
UniqueIdle ==
    /\ directory = {}
    /\ calls = <<>>

\* start_recovery has not been invoked again
RestartIdle ==
    /\ restarts = 0
    /\ later_threads = <<>>

\* no partition list is being built
UnitsIdle ==
    /\ selected = None
    /\ dropdown_partitions = <<>>
    /\ scan_switch = FALSE
    /\ handed = <<>>
    /\ upc = "idle"

\* no image files are being moved
MoveIdle ==
    /\ move_device = None
    /\ listed = {}
    /\ working_files = {}
    /\ working_dest = {}
    /\ saved_before = {}
    /\ replaced = {}
    /\ mvpc = "idle"

\* no processor is in its copy-and-remove loop
RelocIdle ==
    /\ batch = <<>>
    /\ batch_dir = <<>>
    /\ rpc = "idle"

Init ==
    /\ InitController
    /\ LayoutIdle
    /\ UniqueIdle
    /\ RestartIdle
    /\ UnitsIdle
    /\ MoveIdle
    /\ RelocIdle

\* ---- organize_files_by_type on its own, over every small tree

InitLayout ==
    /\ InitController
    /\ UniqueIdle
    /\ RestartIdle
    /\ UnitsIdle
    /\ MoveIdle
    /\ RelocIdle
    /\ recovered_files \in Trees
    /\ tree = recovered_files
    /\ destination \in Destinations
    /\ lpc = "loop"
    /\ processed = 0
    /\ keep_corrupted_files \in BOOLEAN

NextLayout ==
    \/ OrganizeNoExtension
    \/ OrganizeExtension
    \/ OrganizeBreak
    \/ OrganizeCleanup

SpecLayout == InitLayout /\ [][NextLayout]_vars

\* the loop of organize_files_by_type keeps running: a step that changes
\* the state is taken whenever there is one
SpecLayoutFair == SpecLayout /\ WF_vars(NextLayout)

\* ---- the same trees with the processors taken one statement at a time

InitRelocate ==
    /\ InitController
    /\ UniqueIdle
    /\ RestartIdle
    /\ UnitsIdle
    /\ MoveIdle
    /\ RelocIdle
    /\ recovered_files \in Trees
    /\ tree = recovered_files
    /\ destination \in Destinations
    /\ lpc = "loop"
    /\ processed = 0
    /\ keep_corrupted_files \in BOOLEAN

NextRelocate ==
    \/ RelocateExtension
    \/ RelocateNoExtension
    \/ \E ok \in BOOLEAN : RelocateCopy(ok)
    \/ \E ok \in BOOLEAN : RelocateRemove(ok)
    \/ OrganizeBreak

SpecRelocate == InitRelocate /\ [][NextRelocate]_vars

\* ---- _get_unique_path on its own, over every small directory

InitUnique ==
    /\ InitController
    /\ LayoutIdle
    /\ RestartIdle
    /\ UnitsIdle
    /\ MoveIdle
    /\ RelocIdle
    /\ directory \in SUBSET DirectoryNames
    /\ calls = <<>>

NextUnique ==
    \E filename \in AskedNames, created \in BOOLEAN : GetUniquePath(filename, created)

SpecUnique == InitUnique /\ [][NextUnique]_vars

\* ---- the partition list of a device job on its own

InitUnits ==
    /\ InitController
    /\ LayoutIdle
    /\ UniqueIdle
    /\ RestartIdle
    /\ MoveIdle
    /\ RelocIdle
    /\ selected \in UnitDevices
    /\ dropdown_partitions \in UnitPartitionLists
    /\ scan_switch = FALSE
    /\ handed = <<>>
    /\ upc = "ready"

NextUnits ==
    \E scan \in BOOLEAN : BuildPartitionList(scan)

SpecUnits == InitUnits /\ [][NextUnits]_vars

\* ---- move_image_files_to_destination on its own

InitMove ==
    /\ InitController
    /\ LayoutIdle
    /\ UniqueIdle
    /\ RestartIdle
    /\ UnitsIdle
    /\ RelocIdle
    /\ move_device \in MoveDevices
    /\ listed \in NameSets(MaxWorking)
    /\ working_files = listed
    /\ saved_before \in SavedBefore
    /\ working_dest = saved_before
    /\ replaced = {}
    /\ mvpc = "ready"

NextMove ==
    move_image_files_to_destination

SpecMove == InitMove /\ [][NextMove]_vars

\* ---- a job on a device without partitions, after an earlier job.  The
\* working directory is <user data dir>/DataRecovery/working for every job
\* and is removed only by a job that succeeds, so it can hold what an
\* earlier job left in it.

LeftByEarlierJob == {{}, {image_file}}

InitLater ==
    /\ ControllerIdle
    /\ images \in LeftByEarlierJob
    /\ LayoutIdle
    /\ UniqueIdle
    /\ RestartIdle
    /\ UnitsIdle
    /\ MoveIdle
    /\ RelocIdle

LaterJobStart ==
    /\ ui = "idle"
    /\ StartRecovery(sdb, TRUE, <<[path |-> sdb, mounted |-> FALSE, mount_path |-> ""]>>)

NextLater ==
    \/ LaterJobStart
    \/ CloseRecoveryDialog
    \/ JobStart
    \/ JobDeviceCheck(FALSE)
    \/ JobImagingCheck
    \/ \E ok \in BOOLEAN : JobCreateTemp(ok)
    \/ \E ok \in BOOLEAN : JobPopen(ok)
    \/ JobSetProcess
    \/ JobSetPath
    \/ JobWait
    \/ JobClear
    \/ JobResult
    \/ JobReturn
    \/ \E dupes \in BOOLEAN : JobRecoveryCheck(dupes)
    \/ \E ok \in BOOLEAN : JobPhotorec(ok)
    \/ \E outcome \in ScanOutcomes : JobScanStart(outcome)
    \/ JobScanPoll
    \/ JobOrganiseCheck
    \/ \E ok \in BOOLEAN : JobOrgImages(ok)
    \/ \E outcome \in DedupStarts : JobDedupStart(outcome)
    \/ \E timeout \in BOOLEAN : JobDedupPoll(timeout)
    \/ \E ok \in BOOLEAN : JobLogs(ok)
    \/ \E ok \in BOOLEAN : JobClassify(ok)
    \/ JobFinalCheck
    \/ JobExit
    \/ HelperMain
    \/ HelperLoopCheck
    \/ HelperRunCheck
    \/ HelperPopen
    \/ HelperPoll
    \/ HelperSleepCheck
    \/ HelperAfter
    \/ \E rc \in ExitCodes : DDRescueExit(rc)
    \/ PhotorecCarve
    \/ PhotorecExit
    \/ \E kept \in KeptByRdfind, rc \in ExitCodes : RdfindExit(kept, rc)

SpecLater == InitLater /\ [][NextLater]_vars

\* ---- start_recovery invoked again, for an image-file source

RestartFirstStart ==
    /\ ui = "idle"
    /\ \E device \in {image_file, raw_file},
          bds \in { b \in JobBlockDeviceLists : Len(b) = 1 /\ b[1].path = sdb1 } :
        StartRecovery(device, TRUE, bds)

NextRestart ==
    \/ RestartFirstStart
    \/ \E dest \in BOOLEAN : StartRecoveryAgain(dest)
    \/ \E i \in 1..MaxRestarts, text \in EndTexts : LaterThreadExit(i, text)
    \/ CloseRecoveryDialog
    \/ CancelRequest
    \/ CancelWriteFlag
    \/ CancelGuard
    \/ CancelLabel
    \/ JobStart
    \/ JobImageCheck
    \/ \E ok \in BOOLEAN : JobCopy(ok)
    \/ \E dupes \in BOOLEAN : JobRecoveryCheck(dupes)
    \/ \E ok \in BOOLEAN : JobPhotorec(ok)
    \/ \E outcome \in ScanOutcomes : JobScanStart(outcome)
    \/ JobScanPoll
    \/ JobOrganiseCheck
    \/ \E ok \in BOOLEAN : JobOrgImages(ok)
    \/ \E outcome \in DedupStarts : JobDedupStart(outcome)
    \/ \E timeout \in BOOLEAN : JobDedupPoll(timeout)
    \/ \E ok \in BOOLEAN : JobLogs(ok)
    \/ \E ok \in BOOLEAN : JobClassify(ok)
    \/ JobFinalCheck
    \/ JobExit
    \/ PhotorecCarve
    \/ PhotorecExit
    \/ \E kept \in KeptByRdfind, rc \in ExitCodes : RdfindExit(kept, rc)

SpecRestart == Init /\ [][NextRestart]_vars

\* ---- the mount-safety gate on its own, over every block-device list

GateStart ==
    /\ ui = "idle"
    /\ \E device \in Sources, dest \in BOOLEAN, bds \in BlockDeviceLists :
        StartRecovery(device, dest, bds)

GateRespond ==
    /\ gate = "prompting"
    /\ \E resp \in Responses, ok \in [1..Len(mounted_partitions) -> BOOLEAN] :
        OnResponse(resp, ok)

NextGate ==
    \/ GateStart
    \/ GateRespond
    \/ RunIdleCallback

SpecGate == Init /\ [][NextGate]_vars

\* ---- the whole job, over the block-device lists of one disk

JobStartRecovery ==
    /\ ui = "idle"
    /\ \E device \in Sources, dest \in BOOLEAN, bds \in JobBlockDeviceLists :
        StartRecovery(device, dest, bds)

JobThread ==
    \/ JobStart
    \/ JobImageCheck
    \/ \E ok \in BOOLEAN : JobCopy(ok)
    \/ \E scan_partitions \in BOOLEAN : JobDeviceCheck(scan_partitions)
    \/ JobImagingCheck
    \/ \E ok \in BOOLEAN : JobCreateTemp(ok)
    \/ \E ok \in BOOLEAN : JobPopen(ok)
    \/ JobSetProcess
    \/ JobSetPath
    \/ JobWait
    \/ JobClear
    \/ JobResult
    \/ JobReturn
    \/ \E dupes \in BOOLEAN : JobRecoveryCheck(dupes)
    \/ \E ok \in BOOLEAN : JobPhotorec(ok)
    \/ \E outcome \in ScanOutcomes : JobScanStart(outcome)
    \/ JobScanPoll
    \/ JobOrganiseCheck
    \/ \E ok \in BOOLEAN : JobOrgImages(ok)
    \/ \E outcome \in DedupStarts : JobDedupStart(outcome)
    \/ \E timeout \in BOOLEAN : JobDedupPoll(timeout)
    \/ \E ok \in BOOLEAN : JobLogs(ok)
    \/ \E ok \in BOOLEAN : JobClassify(ok)
    \/ JobFinalCheck
    \/ JobExit

HelperProcess ==
    \/ HelperMain
    \/ HelperLoopCheck
    \/ HelperRunCheck
    \/ HelperPopen
    \/ HelperPoll
    \/ HelperSleepCheck
    \/ HelperAfter
    \/ HelperSignal

Subprocesses ==
    \/ \E rc \in ExitCodes : DDRescueExit(rc)
    \/ PhotorecCarve
    \/ PhotorecExit
    \/ \E kept \in KeptByRdfind, rc \in ExitCodes : RdfindExit(kept, rc)

GuiThread ==
    \/ JobStartRecovery
    \/ GateRespond
    \/ RunIdleCallback
    \/ CloseRecoveryDialog
    \/ CancelRequest
    \/ CancelWriteFlag
    \/ CancelGuard
    \/ CancelPoll
    \/ \E delivered \in BOOLEAN : CancelTerminate(delivered)
    \/ CancelWait
    \/ CancelLabel

Next ==
    \/ GuiThread
    \/ JobThread
    \/ HelperProcess
    \/ Subprocesses

Spec == Init /\ [][Next]_vars

====
